---- MODULE Spec2Model ----
(***************************************************************************)
(* A model of bun-doc-mcp, a documentation server.  The repository holds   *)
(* several generations of the same program; the variable gen says which    *)
(* generation a behaviour runs:                                            *)
(*   "p001"  src/unnamed/part_001 (local docs or cache, file-system walk)  *)
(*   "index" src/index.ts         (nav.ts page map, no resource index)     *)
(*   "p003"  src/unnamed/part_003 (nav.ts page map and RESOURCE_INDEX)     *)
(*   "p002"  src/unnamed/part_002 (RESOURCE_INDEX behind two tools,        *)
(*           download with version fallback)                               *)
(*                                                                         *)
(* Spec starts when initializeDocsDir has returned, SpecLocator at the     *)
(* start of the process, and SpecRace runs the download of several         *)
(* processes at once.                                                      *)
(*                                                                         *)
(* Strings of the program are sequences of one-character strings, so that  *)
(* replace, startsWith, split and the regular expressions are computed.    *)
(***************************************************************************)
EXTENDS Integers, Sequences, FiniteSets, TLC

(***************************************************************************)
(* Bounds of the model.                                                    *)
(***************************************************************************)
\* longest nav.ts item list
MaxNav == 2
\* largest explicit search limit tried (besides the default)
MaxLimit == 2
\* most files a corpus holds
MaxFiles == 2
\* server processes that start at the same time
MaxProcs == 2

(***************************************************************************)
(* String primitives of the JavaScript runtime.                            *)
(***************************************************************************)
\* s.startsWith(p)
StartsWith(s, p) == Len(p) <= Len(s) /\ SubSeq(s, 1, Len(p)) = p

\* s.endsWith(p)
EndsWith(s, p) == Len(p) <= Len(s) /\ SubSeq(s, Len(s) - Len(p) + 1, Len(s)) = p

\* s.indexOf(p) + 1: the first position where p occurs in s, 0 when it does not
IndexOf(s, p) ==
  LET hits == {i \in 1..(Len(s) - Len(p) + 1) : SubSeq(s, i, i + Len(p) - 1) = p}
  IN IF hits = {} THEN 0 ELSE CHOOSE i \in hits : \A j \in hits : i <= j

\* s.includes(p)
Includes(s, p) == IndexOf(s, p) > 0

\* s.replace(p, r) with a string pattern: the first occurrence only
ReplaceFirst(s, p, r) ==
  LET i == IndexOf(s, p)
  IN IF i = 0 THEN s
     ELSE SubSeq(s, 1, i - 1) \o r \o SubSeq(s, i + Len(p), Len(s))

\* s.split(c) for a one-character separator c
RECURSIVE Split(_, _)
Split(s, c) ==
  LET i == IndexOf(s, <<c>>)
  IN IF i = 0 THEN <<s>>
     ELSE <<SubSeq(s, 1, i - 1)>> \o Split(SubSeq(s, i + 1, Len(s)), c)

\* s.substring(0, n)
Substring0(s, n) == SubSeq(s, 1, IF n < Len(s) THEN n ELSE Len(s))

\* path.join(a, b) for clean relative b
Join(a, b) == a \o <<"/">> \o b

\* path.dirname(p) for a path with a directory part
RECURSIVE Dirname(_)
Dirname(p) ==
  IF p = <<>> THEN <<>>
  ELSE IF p[Len(p)] = "/" THEN SubSeq(p, 1, Len(p) - 1)
  ELSE Dirname(SubSeq(p, 1, Len(p) - 1))

\* filePath.split('/').pop()
Basename(p) == LET parts == Split(p, "/") IN parts[Len(parts)]

(***************************************************************************)
(* Literals of the program.                                                *)
(***************************************************************************)
SCHEME == <<"b", "u", "n", "c", "u", "m", "e", "n", "t", ":", "/", "/">>
MD == <<".", "m", "d">>
GUIDES == <<"g", "u", "i", "d", "e", "s">>
ECOSYSTEM == <<"e", "c", "o", "s", "y", "s", "t", "e", "m">>
INDEX == <<"i", "n", "d", "e", "x">>
DEFAULT_SEARCH_LIMIT == 30

\* the resolved documentation directory (an absolute path)
DOCS_DIR == <<"/", "D">>


(***************************************************************************)
(* The documentation corpus: the markdown files that may exist under       *)
(* DOCS_DIR, with their content, and the index.json of a guides            *)
(* subdirectory.                                                           *)
(***************************************************************************)
F_a == <<"a">> \o MD
F_aIndex == <<"a", "/">> \o INDEX \o MD
F_gx == GUIDES \o <<"/", "x">> \o MD
F_gxy == GUIDES \o <<"/", "x", "/", "y">> \o MD
F_ee == ECOSYSTEM \o <<"/", "e">> \o MD
F_esn == ECOSYSTEM \o <<"/", "s", "/", "n">> \o MD

\* the order in which a directory traversal (find, ls) meets the files
FileOrder ==
  <<Join(DOCS_DIR, F_a), Join(DOCS_DIR, F_aIndex), Join(DOCS_DIR, F_gx),
    Join(DOCS_DIR, F_gxy), Join(DOCS_DIR, F_ee), Join(DOCS_DIR, F_esn)>>

FileUniverse == {FileOrder[i] : i \in 1..Len(FileOrder)}

\* the text a file of the corpus holds
Content(path) ==
  IF path = Join(DOCS_DIR, F_a) THEN <<"a", "a", "a">>
  ELSE IF path = Join(DOCS_DIR, F_aIndex) THEN <<"a", "b">>
  ELSE IF path = Join(DOCS_DIR, F_gx)
    THEN <<"-", "-", "-", "\n", "n", "a", "m", "e", ":", " ", "N", "\n",
           "-", "-", "-", "\n", "a", "a">>
  ELSE IF path = Join(DOCS_DIR, F_gxy) THEN <<"b", "a", "\n", "a", "b">>
  ELSE IF path = Join(DOCS_DIR, F_ee) THEN <<"b", "b">>
  ELSE <<"a", "b", "a", "b">>

\* the guides subdirectory that may hold an index.json, and what it holds
MetaDir == Join(DOCS_DIR, GUIDES \o <<"/", "x">>)
MetaValue == [ok |-> TRUE, name |-> <<"X">>, description |-> <<>>]

\* the corpora of at most MaxFiles files (index.json counted)
Corpora ==
  {[files |-> [p \in fs |-> Content(p)], indexJson |-> [d \in ds |-> MetaValue]] :
     <<fs, ds>> \in {c \in (SUBSET FileUniverse) \X (SUBSET {MetaDir}) :
                       Cardinality(c[1]) + Cardinality(c[2]) <= MaxFiles}}

VARIABLES
  gen,                 \* the generation of the program that runs
  pc,                  \* the position of the top-level script
  isTTY,               \* process.stdout.isTTY
  githubOnly,          \* --github-only is among the arguments
  localDir,            \* node_modules/bun-types/docs exists under the cwd
  cache,               \* the cache docs directory: absent, noNav, withNav or mixed
  cacheOps,            \* what the locator did to the cache directory
  fetches,             \* the calls of downloadDocsFromGitHub so far
  docsDir,             \* what initializeDocsDir returned: none, local or cache
  stderr,              \* the lines console.error wrote
  exitCode,            \* the code of process.exit, -1 while the process runs
  files,               \* the regular files under DOCS_DIR: path -> text
  indexJson,           \* the index.json files under DOCS_DIR: directory -> value
  navSource,           \* what importing nav.ts yields
  PAGE_MAP,            \* Map slug -> PageInfo, in insertion order
  RESOURCE_INDEX,      \* Map uri -> IndexedResource, in insertion order
  TOTAL_RESOURCE_COUNT,
  stdout,              \* the lines console.log wrote
  connected,           \* server.connect(transport) has been called
  request,             \* the request being answered
  response,            \* the answer to it
  bunVersion,          \* Bun.version
  attempts,            \* the downloads of the running downloadDocsWithFallback
  lastError,           \* its lastError
  roundLog,            \* the download rounds initializeDocsDir has started
  fetchLog,            \* every call of downloadDocsFromGitHub and how it ended
  tempDir,             \* the temporary clone directory: absent or present
  procs,               \* concurrent processes: where each is in its download
  temps,               \* the temporary directories next to the cache target
  targetDir            \* the cache target the concurrent processes download to

vars ==
  <<gen, pc, isTTY, githubOnly, localDir, cache, cacheOps, fetches, docsDir,
    stderr, exitCode, files, indexJson, navSource, PAGE_MAP, RESOURCE_INDEX,
    TOTAL_RESOURCE_COUNT, stdout, connected, request, response, bunVersion,
    attempts, lastError, roundLog, fetchLog, tempDir, procs, temps, targetDir>>

fallbackVars == <<bunVersion, attempts, lastError>>

raceVars == <<procs, temps, targetDir>>

fetchVars == <<roundLog, fetchLog, tempDir>>

(***************************************************************************)
(* The file system as the program sees it.                                 *)
(***************************************************************************)
\* the directories on the way to a path
Ancestors(path) ==
  {SubSeq(path, 1, i - 1) : i \in {j \in 2..Len(path) : path[j] = "/"}}

\* the directories that exist (a file or an index.json makes its ancestors)
Dirs ==
  {DOCS_DIR} \cup UNION {Ancestors(p) : p \in DOMAIN files}
    \cup UNION {Ancestors(d) \cup {d} : d \in DOMAIN indexJson}

\* existsSync(path)
existsSync(path) == path \in DOMAIN files \/ path \in Dirs

\* the paths of a sequence that pass a test, in order
RECURSIVE Filter(_, _)
Filter(seq, keep) ==
  IF seq = <<>> THEN <<>>
  ELSE (IF seq[1] \in keep THEN <<seq[1]>> ELSE <<>>) \o Filter(Tail(seq), keep)

\* find ${dir} -type f -name "*.md": every markdown file beneath dir
FindMarkdown(dir) ==
  Filter(FileOrder,
         {p \in DOMAIN files :
            StartsWith(p, dir \o <<"/">>) /\ EndsWith(Basename(p), MD)})

\* the order in which a traversal meets the directories
DirOrder ==
  <<Join(DOCS_DIR, <<"a">>), Join(DOCS_DIR, GUIDES), MetaDir,
    Join(DOCS_DIR, ECOSYSTEM), Join(DOCS_DIR, ECOSYSTEM \o <<"/", "s">>)>>

\* find ${dir} -mindepth 1 -type d: every directory strictly beneath dir
FindDirs(dir) ==
  Filter(DirOrder, {d \in Dirs : StartsWith(d, dir \o <<"/">>)})


(***************************************************************************)
(* A JavaScript Map: a sequence of [key, val] in insertion order; set on   *)
(* a key already present replaces the value and keeps the position.        *)
(***************************************************************************)
MapHas(m, k) == \E i \in 1..Len(m) : m[i].key = k

MapGet(m, k) == m[CHOOSE i \in 1..Len(m) : m[i].key = k].val

MapSet(m, k, v) ==
  IF MapHas(m, k)
  THEN [i \in 1..Len(m) |-> IF m[i].key = k THEN [key |-> k, val |-> v] ELSE m[i]]
  ELSE Append(m, [key |-> k, val |-> v])

(***************************************************************************)
(* nav.ts: the manifest.  A page that is neither disabled nor external has *)
(* disabled = FALSE and href = <<>> (undefined).                           *)
(***************************************************************************)
S_a == <<"a">>
S_gx == GUIDES \o <<"/", "x">>
S_ee == ECOSYSTEM \o <<"/", "e">>
Slugs == {S_a, S_gx, S_ee}
HREF == <<"h">>

NavPage(slug, disabled, href) ==
  [type |-> "page", slug |-> slug, title |-> <<"T">> \o slug,
   description |-> IF slug = S_a THEN <<>> ELSE <<"d">>,
   disabled |-> disabled, href |-> href]

NavDivider ==
  [type |-> "divider", slug |-> <<>>, title |-> <<"S">>, description |-> <<>>,
   disabled |-> FALSE, href |-> <<>>]

NavItems ==
  {NavPage(s, FALSE, <<>>) : s \in Slugs} \cup {NavPage(s, TRUE, <<>>) : s \in Slugs}
    \cup {NavPage(s, FALSE, HREF) : s \in Slugs} \cup {NavDivider}

\* the item lists of at most MaxNav items in which no slug occurs twice
NavLists ==
  {items \in UNION {[1..n -> NavItems] : n \in 0..MaxNav} :
     \A i, j \in 1..Len(items) :
        (i # j /\ items[i].type = "page" /\ items[j].type = "page")
          => items[i].slug # items[j].slug}

\* what import(navPath) and the walk of nav.items yield: the items, or an
\* exception after the items walked before it was raised
NavSources ==
  {[ok |-> TRUE, items |-> items] : items \in NavLists}
    \cup {[ok |-> FALSE, items |-> <<>>],
          [ok |-> FALSE, items |-> <<NavPage(S_a, FALSE, <<>>)>>]}

\* the loop of parseNavigation over nav.items
RECURSIVE parseItems(_, _, _)
parseItems(items, currentDivider, pageMap) ==
  IF items = <<>> THEN pageMap
  ELSE LET item == items[1] IN
    IF item.type = "divider"
    THEN parseItems(Tail(items), item.title, pageMap)
    ELSE parseItems(Tail(items), currentDivider,
           MapSet(pageMap, item.slug,
                  [title |-> item.title, description |-> item.description,
                   divider |-> currentDivider, disabled |-> item.disabled,
                   href |-> item.href]))

\* parseNavigation of index.ts and part_003: the page map of the items
\* walked; an exception is logged and the page map set so far is returned
parseNavigation(src) == parseItems(src.items, <<>>, <<>>)


(***************************************************************************)
(* parseFrontmatter: the leading block between two --- lines.              *)
(***************************************************************************)
\* \w and \s of the regular expression, over the characters of the corpus
WordChars == {"a", "b", "d", "e", "m", "n", "N", "x", "y", "s", "X", "_"}
SpaceChars == {" ", "\t"}

\* the length of the longest prefix of s made of characters of cs
RECURSIVE Span(_, _)
Span(s, cs) ==
  IF s # <<>> /\ s[1] \in cs THEN 1 + Span(Tail(s), cs) ELSE 0

\* line.match(/^(\w+):\s*(.*)$/): [ok, key, value]
MatchKeyValue(line) ==
  LET k == Span(line, WordChars)
      rest == SubSeq(line, k + 2, Len(line))
      sp == Span(rest, SpaceChars)
  IN IF k > 0 /\ k < Len(line) /\ line[k + 1] = ":"
     THEN [ok |-> TRUE, key |-> SubSeq(line, 1, k),
           value |-> SubSeq(rest, sp + 1, Len(rest))]
     ELSE [ok |-> FALSE, key |-> <<>>, value |-> <<>>]

\* the while loop of parseFrontmatter from line i on
RECURSIVE frontmatterLoop(_, _, _)
frontmatterLoop(lines, i, fm) ==
  IF i > Len(lines) \/ lines[i] = <<"-", "-", "-">> THEN fm
  ELSE LET m == MatchKeyValue(lines[i]) IN
    frontmatterLoop(lines, i + 1,
      IF lines[i] # <<>> /\ m.ok /\ m.key # <<>> /\ m.value # <<>>
      THEN MapSet(fm, m.key, m.value) ELSE fm)

\* parseFrontmatter(content): name and description, <<>> when undefined
parseFrontmatter(content) ==
  LET lines == Split(content, "\n")
      fm == frontmatterLoop(lines, 2, <<>>)
      field(k) == IF MapHas(fm, k) THEN MapGet(fm, k) ELSE <<>>
  IN IF lines[1] # <<"-", "-", "-">>
     THEN [name |-> <<>>, description |-> <<>>]
     ELSE [name |-> field(<<"n", "a", "m", "e">>),
           description |->
             field(<<"d", "e", "s", "c", "r", "i", "p", "t", "i", "o", "n">>)]

(***************************************************************************)
(* buildResourceIndex of part_003.                                         *)
(***************************************************************************)
\* firstLine.substring(0, 100)
PREVIEW_LENGTH == 100

\* a || b on strings: the first that is not empty
Or(a, b) == IF a # <<>> THEN a ELSE b

\* c.toUpperCase() over the characters of the corpus
ToUpperCase(c) ==
  IF c = "a" THEN "A" ELSE IF c = "b" THEN "B" ELSE IF c = "e" THEN "E"
  ELSE IF c = "n" THEN "N" ELSE IF c = "x" THEN "X" ELSE IF c = "y" THEN "Y"
  ELSE c

\* filename.charAt(0).toUpperCase() + filename.slice(1)
Capitalize(s) == IF s = <<>> THEN <<>> ELSE <<ToUpperCase(s[1])>> \o Tail(s)

\* the description of a nav page: "divider / description", or the one present
pageDescription(pageInfo) ==
  IF pageInfo.divider # <<>> /\ pageInfo.description # <<>>
  THEN pageInfo.divider \o <<" ", "/", " ">> \o pageInfo.description
  ELSE Or(Or(pageInfo.description, pageInfo.divider), <<>>)

\* the file behind a nav slug: slug.md, else slug/index.md, else <<>> (missing)
navFilePath(slug) ==
  IF existsSync(Join(DOCS_DIR, slug \o MD)) THEN Join(DOCS_DIR, slug \o MD)
  ELSE IF existsSync(Join(Join(DOCS_DIR, slug), INDEX \o MD))
    THEN Join(Join(DOCS_DIR, slug), INDEX \o MD)
  ELSE <<>>

\* the record buildResourceIndex stores for a nav page
navResource(slug, pageInfo) ==
  [uri |-> SCHEME \o slug, name |-> pageInfo.title,
   description |-> pageDescription(pageInfo), mimeType |-> "text/markdown",
   filePath |-> navFilePath(slug), isDirectory |-> FALSE]

\* the first loop: the pages of PAGE_MAP, skipping disabled, external and missing
RECURSIVE indexNavPages(_, _)
indexNavPages(pages, index) ==
  IF pages = <<>> THEN index
  ELSE LET slug == pages[1].key
           pageInfo == pages[1].val
       IN IF pageInfo.disabled \/ pageInfo.href # <<>> \/ navFilePath(slug) = <<>>
          THEN indexNavPages(Tail(pages), index)
          ELSE indexNavPages(Tail(pages),
                 MapSet(index, SCHEME \o slug, navResource(slug, pageInfo)))

\* filePath.replace(DOCS_DIR + '/', '').replace('.md', '')
relativeSlug(filePath) ==
  ReplaceFirst(ReplaceFirst(filePath, DOCS_DIR \o <<"/">>, <<>>), MD, <<>>)

\* the record stored for a markdown file under guides
guideResource(filePath) ==
  LET content == files[filePath]
      frontmatter == parseFrontmatter(content)
      filename == ReplaceFirst(Basename(filePath), MD, <<>>)
      firstLine == Split(content, "\n")[1]
  IN [uri |-> SCHEME \o relativeSlug(filePath),
      name |-> Or(frontmatter.name, filename),
      description |->
        Or(Or(frontmatter.description, Substring0(firstLine, PREVIEW_LENGTH)), <<>>),
      mimeType |-> "text/markdown", filePath |-> filePath, isDirectory |-> FALSE]

\* the record stored for a subdirectory of guides
guideDirResource(dirPath) ==
  LET dirname == Basename(dirPath)
      hasIndex == dirPath \in DOMAIN indexJson /\ indexJson[dirPath].ok
  IN [uri |-> SCHEME \o ReplaceFirst(dirPath, DOCS_DIR \o <<"/">>, <<>>),
      name |-> IF hasIndex THEN Or(indexJson[dirPath].name, dirname) ELSE dirname,
      description |->
        IF hasIndex
        THEN Or(indexJson[dirPath].description,
                <<"D", "i", "r", "e", "c", "t", "o", "r", "y">>)
        ELSE <<"D", "i", "r", "e", "c", "t", "o", "r", "y">>,
      mimeType |-> "application/json", filePath |-> <<>>, isDirectory |-> TRUE]

\* the record stored for a markdown file under ecosystem
ecosystemResource(filePath) ==
  LET filename == ReplaceFirst(Basename(filePath), MD, <<>>)
      firstLine == Or(Split(files[filePath], "\n")[1], filename)
  IN [uri |-> SCHEME \o relativeSlug(filePath), name |-> Capitalize(filename),
      description |-> Substring0(firstLine, PREVIEW_LENGTH),
      mimeType |-> "text/markdown", filePath |-> filePath, isDirectory |-> FALSE]

\* the placeholder of the guides directory (its description shortened)
guidesRootResource ==
  [uri |-> SCHEME \o GUIDES, name |-> <<"G", "u", "i", "d", "e", "s">>,
   description |-> <<"A", " ", "c", "o", "l", "l", "e", "c", "t", "i", "o", "n">>,
   mimeType |-> "application/json", filePath |-> <<>>, isDirectory |-> TRUE]

\* RESOURCE_INDEX.set(r.uri, r) for each path of a listing, in order
RECURSIVE indexAll(_, _, _)
indexAll(paths, kind, index) ==
  IF paths = <<>> THEN index
  ELSE LET r == IF kind = "guide" THEN guideResource(paths[1])
                ELSE IF kind = "dir" THEN guideDirResource(paths[1])
                ELSE ecosystemResource(paths[1])
       IN indexAll(Tail(paths), kind, MapSet(index, r.uri, r))

\* the guides block: the root placeholder, the files, then the subdirectories
indexGuides(index) ==
  LET guidesDir == Join(DOCS_DIR, GUIDES) IN
  IF existsSync(guidesDir)
  THEN indexAll(FindDirs(guidesDir), "dir",
         indexAll(FindMarkdown(guidesDir), "guide",
           MapSet(index, SCHEME \o GUIDES, guidesRootResource)))
  ELSE index

\* the ecosystem block
indexEcosystem(index) ==
  LET ecosystemDir == Join(DOCS_DIR, ECOSYSTEM) IN
  IF existsSync(ecosystemDir)
  THEN indexAll(FindMarkdown(ecosystemDir), "eco", index)
  ELSE index

\* the index buildResourceIndex leaves in RESOURCE_INDEX
builtIndex(pageMap) == indexEcosystem(indexGuides(indexNavPages(pageMap, <<>>)))


(***************************************************************************)
(* The resource resolver of part_003.                                      *)
(***************************************************************************)
\* new URL('buncument://' + rest).hostname: the text up to the first slash
Hostname(rest) ==
  LET i == IndexOf(rest, <<"/">>) IN IF i = 0 THEN rest ELSE SubSeq(rest, 1, i - 1)

\* new URL('buncument://' + rest).pathname: the text from the first slash on
Pathname(rest) ==
  LET i == IndexOf(rest, <<"/">>) IN IF i = 0 THEN <<>> ELSE SubSeq(rest, i, Len(rest))

\* the Resource fields of an IndexedResource
asResource(r) ==
  [uri |-> r.uri, name |-> r.name, description |-> r.description,
   mimeType |-> r.mimeType]

\* the entries of an index that pass a test on [key, val], in order
RECURSIVE selectEntries(_, _)
selectEntries(index, keep) ==
  IF index = <<>> THEN <<>>
  ELSE (IF index[1] \in keep THEN <<asResource(index[1].val)>> ELSE <<>>)
         \o selectEntries(Tail(index), keep)

\* the test of getAllPagesResources on one entry of RESOURCE_INDEX
rootVisible(entry) ==
  LET path == ReplaceFirst(entry.key, SCHEME, <<>>) IN
  path = GUIDES
    \/ (~StartsWith(path, GUIDES \o <<"/">>)
         /\ (IF StartsWith(path, ECOSYSTEM \o <<"/">>)
             THEN Len(Split(path, "/")) = 2
             ELSE ~entry.val.isDirectory))

\* getAllPagesResources(): the root listing
getAllPagesResources(index) ==
  selectEntries(index, {index[i] : i \in {j \in 1..Len(index) : rootVisible(index[j])}})

\* the test without the check that nothing follows the child's segment
childOf_Prefix(entry, path) ==
  LET pathPrefix == SCHEME \o path \o <<"/">> IN
  StartsWith(entry.key, pathPrefix)

\* the test of the directory branch on one entry
childOf(entry, path) ==
  LET pathPrefix == SCHEME \o path \o <<"/">> IN
  StartsWith(entry.key, pathPrefix)
    /\ ~Includes(ReplaceFirst(entry.key, pathPrefix, <<>>), <<"/">>)

Reply(kind, mimeType, text, entries, results) ==
  [kind |-> kind, mimeType |-> mimeType, text |-> text, entries |-> entries,
   results |-> results]

\* handleResourceRequest(uri) of part_003 for the uri buncument://rest
handleResourceRequest(rest, index) ==
  LET raw == Hostname(rest) \o Pathname(rest)
      path == IF StartsWith(raw, <<"/">>) THEN Tail(raw) ELSE raw
      resourceUri == SCHEME \o path
  IN IF path = <<>>
     THEN Reply("root", "application/json", <<>>, getAllPagesResources(index), <<>>)
     ELSE IF ~MapHas(index, resourceUri)
     THEN Reply("notfound", "text/plain", path, <<>>, <<>>)
     ELSE LET indexedResource == MapGet(index, resourceUri) IN
       IF indexedResource.isDirectory
       THEN Reply("directory", "application/json", path,
              selectEntries(index,
                {index[i] : i \in {j \in 1..Len(index) : childOf(index[j], path)}}),
              <<>>)
       ELSE IF indexedResource.filePath # <<>>
       THEN IF indexedResource.filePath \in DOMAIN files
            THEN Reply("document", indexedResource.mimeType,
                       files[indexedResource.filePath], <<>>, <<>>)
            ELSE Reply("fileerror", "text/plain", <<>>, <<>>, <<>>)
       ELSE Reply("nofilepath", "text/plain", path, <<>>, <<>>)

(***************************************************************************)
(* The search engine of part_003.  A pattern is its source text; the       *)
(* patterns of the model are literals, and "(" stands for every source     *)
(* that new RegExp rejects.                                                *)
(***************************************************************************)
\* new RegExp(pattern, 'g') does not throw
Compiles(pattern) == ~Includes(pattern, <<"(">>)

\* const allowedFlags of grepDocuments of part_002
allowedFlags == <<"g", "i", "m", "u", "y", "s">>

\* new RegExp(pattern, flags) of a pattern that compiles
RegExp(pattern, flags) == [source |-> pattern, flags |-> flags]

\* the case folding of the i flag: letters compare by their lower case
Canonicalize(s) ==
  LET upper == <<"A", "B", "C", "D", "E", "F", "G", "H", "I", "J", "K", "L", "M",
                 "N", "O", "P", "Q", "R", "S", "T", "U", "V", "W", "X", "Y", "Z">>
      lower == <<"a", "b", "c", "d", "e", "f", "g", "h", "i", "j", "k", "l", "m",
                 "n", "o", "p", "q", "r", "s", "t", "u", "v", "w", "x", "y", "z">>
      fold(c) == IF \E k \in 1..26 : upper[k] = c
                 THEN lower[CHOOSE k \in 1..26 : upper[k] = c] ELSE c
  IN [k \in 1..Len(s) |-> fold(s[k])]

\* regex.exec at lastIndex i (1-based): the position of the next match, 0 if
\* none.  The y flag lets a match start at lastIndex only, the i flag folds
\* the case; m, s and u change nothing for a literal pattern.
nextMatch(content, regex, i) ==
  LET ignoreCase == \E k \in 1..Len(regex.flags) : regex.flags[k] = "i"
      sticky == \E k \in 1..Len(regex.flags) : regex.flags[k] = "y"
      text == IF ignoreCase THEN Canonicalize(content) ELSE content
      pattern == IF ignoreCase THEN Canonicalize(regex.source) ELSE regex.source
      last == IF sticky THEN i ELSE Len(content) - Len(pattern) + 1
      hits == {k \in i..last :
                 /\ k + Len(pattern) - 1 <= Len(content)
                 /\ SubSeq(text, k, k + Len(pattern) - 1) = pattern}
  IN IF hits = {} THEN 0 ELSE CHOOSE k \in hits : \A h \in hits : k <= h

\* content.match(regex) with the g flag: the matches, found from lastIndex 0,
\* each search resuming where the last match ended (one further after an
\* empty match); <<>> stands for null
RECURSIVE matchAll(_, _, _)
matchAll(content, regex, i) ==
  LET k == nextMatch(content, regex, i) IN
  IF k = 0 THEN <<>>
  ELSE <<k>> \o matchAll(content, regex,
                         IF regex.source = <<>> THEN k + 1
                         ELSE k + Len(regex.source))

\* countMatches with a regular expression that lacks the g flag: match
\* returns the first match only
countMatches_NoGlobal(filePath, regex) ==
  IF filePath \in DOMAIN files /\ nextMatch(files[filePath], regex, 1) > 0
  THEN 1
  ELSE 0

\* countMatches(filePath, regex): a file that cannot be read counts 0
countMatches(filePath, regex) ==
  IF filePath \in DOMAIN files
  THEN Len(matchAll(files[filePath], regex, 1))
  ELSE 0

\* the scan of grepDocuments over RESOURCE_INDEX
RECURSIVE scanIndex(_, _, _)
scanIndex(index, regex, searchPath) ==
  IF index = <<>> THEN <<>>
  ELSE LET uri == index[1].key
           resource == index[1].val
           skip == resource.isDirectory \/ resource.filePath = <<>>
                     \/ (searchPath # <<>>
                          /\ ~StartsWith(ReplaceFirst(uri, SCHEME, <<>>), searchPath))
           matchCount == countMatches(resource.filePath, regex)
       IN (IF ~skip /\ matchCount > 0
           THEN <<[uri |-> resource.uri, matchCount |-> matchCount]>> ELSE <<>>)
            \o scanIndex(Tail(index), regex, searchPath)

\* a sort that puts the later of two results with equal matchCount first
RECURSIVE insertSorted_Unstable(_, _)
insertSorted_Unstable(sorted, r) ==
  IF sorted = <<>> THEN <<r>>
  ELSE IF sorted[1].matchCount > r.matchCount
       THEN <<sorted[1]>> \o insertSorted_Unstable(Tail(sorted), r)
       ELSE <<r>> \o sorted

\* results.sort((a, b) => b.matchCount - a.matchCount): a stable sort
RECURSIVE insertSorted(_, _)
insertSorted(sorted, r) ==
  IF sorted = <<>> THEN <<r>>
  ELSE IF sorted[1].matchCount >= r.matchCount
       THEN <<sorted[1]>> \o insertSorted(Tail(sorted), r)
       ELSE <<r>> \o sorted

RECURSIVE sortByMatchCount(_)
sortByMatchCount(results) ==
  IF results = <<>> THEN <<>>
  ELSE insertSorted(sortByMatchCount(SubSeq(results, 1, Len(results) - 1)),
                    results[Len(results)])

\* array.slice(0, limit): a negative limit counts from the end
slice0(array, limit) ==
  LET end == IF limit < 0 THEN Len(array) + limit
             ELSE IF limit > Len(array) THEN Len(array) ELSE limit
  IN IF end <= 0 THEN <<>> ELSE SubSeq(array, 1, end)

\* the flags of the regular expression without the Set that keeps each once
finalFlags_NoSet(flags) ==
  LET given == IF flags.given THEN flags.value ELSE <<"g">>
      list == SelectSeq(given, LAMBDA f : \E k \in 1..Len(allowedFlags) : allowedFlags[k] = f)
  IN IF \E k \in 1..Len(list) : list[k] = "g" THEN list ELSE Append(list, "g")

\* finalFlags of grepDocuments of part_002: the flags argument defaults to
\* 'g'; its allowed characters, each once in the order of their first
\* occurrence, and g at the end when it is not among them
finalFlags(flags) ==
  LET given == IF flags.given THEN flags.value ELSE <<"g">>
      kept == {i \in 1..Len(given) :
                 /\ \E k \in 1..Len(allowedFlags) : allowedFlags[k] = given[i]
                 /\ \A j \in 1..(i - 1) : given[j] # given[i]}
      flagList == [n \in 1..Cardinality(kept) |->
                    given[CHOOSE i \in kept : Cardinality({j \in kept : j <= i}) = n]]
      withG == IF \E k \in 1..Len(flagList) : flagList[k] = "g" THEN flagList
               ELSE Append(flagList, "g")
  IN IF withG = <<>> THEN <<"g">> ELSE withG

\* grepDocuments(pattern, searchPath, limit) of part_003, which compiles the
\* pattern with 'g', and grepDocuments(pattern, searchPath, limit, flags) of
\* part_002, when the pattern compiles
grepDocuments(index, pattern, searchPath, limit, flags) ==
  slice0(sortByMatchCount(scanIndex(index, RegExp(pattern, flags), searchPath)), limit)


(***************************************************************************)
(* index.ts: no resource index; every request reads PAGE_MAP and the       *)
(* directory.  A shell command whose glob matches nothing fails, and the   *)
(* failure is an exception unless the call site catches it.                *)
(***************************************************************************)
\* ls -d ${dir}/*/ : the immediate subdirectories of dir
lsDirs(dir) == Filter(DirOrder, {d \in Dirs : Dirname(d) = dir})

\* ls ${dir}/*.md : the markdown files immediately in dir
lsMarkdown(dir) ==
  Filter(FileOrder, {p \in DOMAIN files : Dirname(p) = dir /\ EndsWith(p, MD)})

\* getGuidesSubdirs(): [ok, names]; not ok when ls fails
getGuidesSubdirs ==
  LET guidesDir == Join(DOCS_DIR, GUIDES)
      entries == lsDirs(guidesDir)
  IN IF ~existsSync(guidesDir) THEN [ok |-> TRUE, names |-> <<>>]
     ELSE IF entries = <<>> THEN [ok |-> FALSE, names |-> <<>>]
     ELSE [ok |-> TRUE,
           names |-> [i \in 1..Len(entries) |->
                        ReplaceFirst(ReplaceFirst(entries[i] \o <<"/">>,
                                                  guidesDir \o <<"/">>, <<>>),
                                     <<"/">>, <<>>)]]

\* getEcosystemFiles(): [ok, names]; not ok when ls fails
getEcosystemFiles ==
  LET ecosystemDir == Join(DOCS_DIR, ECOSYSTEM)
      entries == lsMarkdown(ecosystemDir)
  IN IF ~existsSync(ecosystemDir) THEN [ok |-> TRUE, names |-> <<>>]
     ELSE IF entries = <<>> THEN [ok |-> FALSE, names |-> <<>>]
     ELSE [ok |-> TRUE,
           names |-> [i \in 1..Len(entries) |->
                        ReplaceFirst(ReplaceFirst(entries[i],
                                                  ecosystemDir \o <<"/">>, <<>>),
                                     MD, <<>>)]]

\* the nav pages of getAllPagesResources: every page that is not disabled
RECURSIVE navEntries(_)
navEntries(pages) ==
  IF pages = <<>> THEN <<>>
  ELSE (IF pages[1].val.disabled THEN <<>>
        ELSE <<[uri |-> SCHEME \o pages[1].key, name |-> pages[1].val.title,
                description |-> pageDescription(pages[1].val),
                mimeType |-> "text/markdown"]>>)
         \o navEntries(Tail(pages))

\* the entry of getAllPagesResources for one ecosystem file name
ecosystemEntry(filename) ==
  LET filePath == Join(Join(DOCS_DIR, ECOSYSTEM), filename \o MD)
      firstLine == Or(Split(files[filePath], "\n")[1], filename)
  IN [uri |-> SCHEME \o ECOSYSTEM \o <<"/">> \o filename,
      name |-> Capitalize(filename),
      description |-> Substring0(firstLine, PREVIEW_LENGTH),
      mimeType |-> "text/markdown"]

\* getAllPagesResources() of index.ts
getAllPagesResources_index(pageMap) ==
  LET eco == getEcosystemFiles IN
  navEntries(pageMap)
    \o <<[uri |-> guidesRootResource.uri, name |-> guidesRootResource.name,
          description |-> guidesRootResource.description,
          mimeType |-> "application/json"]>>
    \o [i \in 1..Len(eco.names) |-> ecosystemEntry(eco.names[i])]

\* the entries of the guides branch: the subdirectories that hold an index.json
RECURSIVE guidesEntries(_)
guidesEntries(subdirs) ==
  IF subdirs = <<>> THEN <<>>
  ELSE LET subdir == subdirs[1]
           dir == Join(Join(DOCS_DIR, GUIDES), subdir)
       IN (IF dir \in DOMAIN indexJson /\ indexJson[dir].ok
           THEN <<[uri |-> SCHEME \o GUIDES \o <<"/">> \o subdir,
                   name |-> Or(indexJson[dir].name, subdir),
                   description |-> Or(indexJson[dir].description, <<>>),
                   mimeType |-> "application/json"]>>
           ELSE <<>>)
            \o guidesEntries(Tail(subdirs))

\* the entry of the guides/subdir branch for one file of the subdirectory
subdirEntry(subdir, filePath) ==
  LET subdirPath == Join(Join(DOCS_DIR, GUIDES), subdir)
      filename == ReplaceFirst(ReplaceFirst(filePath, subdirPath \o <<"/">>, <<>>),
                               MD, <<>>)
      frontmatter == parseFrontmatter(files[filePath])
  IN [uri |-> SCHEME \o GUIDES \o <<"/">> \o subdir \o <<"/">> \o filename,
      name |-> Or(frontmatter.name, filename),
      description |-> Or(frontmatter.description, <<>>),
      mimeType |-> "text/markdown"]

\* the branches that read ${path}.md
readMarkdown(path) ==
  LET filePath == Join(DOCS_DIR, path \o MD) IN
  IF ~existsSync(filePath) THEN Reply("filenotfound", "text/plain", path, <<>>, <<>>)
  ELSE IF filePath \in DOMAIN files
    THEN Reply("document", "text/markdown", files[filePath], <<>>, <<>>)
  ELSE Reply("fileerror", "text/plain", <<>>, <<>>, <<>>)

\* handleResourceRequest(uri) of index.ts for the uri buncument://rest
handleResourceRequest_index(rest, pageMap) ==
  LET raw == Hostname(rest) \o Pathname(rest)
      path == IF StartsWith(raw, <<"/">>) THEN Tail(raw) ELSE raw
      parts == Split(path, "/")
      subdirs == getGuidesSubdirs
      subdirPath == Join(Join(DOCS_DIR, GUIDES), parts[2])
      listed == lsMarkdown(subdirPath)
  IN IF path = <<>>
     THEN Reply("root", "application/json", <<>>,
                getAllPagesResources_index(pageMap), <<>>)
     ELSE IF path = GUIDES
     THEN IF subdirs.ok
          THEN Reply("directory", "application/json", path,
                     guidesEntries(subdirs.names), <<>>)
          ELSE Reply("thrown", "", <<>>, <<>>, <<>>)
     ELSE IF StartsWith(path, GUIDES \o <<"/">>) /\ Len(parts) = 2 /\ parts[2] # <<>>
     THEN IF ~existsSync(subdirPath)
          THEN Reply("dirnotfound", "text/plain", path, <<>>, <<>>)
          ELSE Reply("directory", "application/json", path,
                     [i \in 1..Len(listed) |-> subdirEntry(parts[2], listed[i])], <<>>)
     ELSE IF StartsWith(path, GUIDES \o <<"/">>) /\ Len(parts) = 3
     THEN readMarkdown(path)
     ELSE IF StartsWith(path, ECOSYSTEM \o <<"/">>)
     THEN readMarkdown(path)
     ELSE IF ~MapHas(pageMap, path)
     THEN Reply("notfound", "text/plain", path, <<>>, <<>>)
     ELSE IF MapGet(pageMap, path).disabled
     THEN Reply("disabled", "text/plain", MapGet(pageMap, path).title, <<>>, <<>>)
     ELSE IF MapGet(pageMap, path).href # <<>>
     THEN Reply("external", "text/plain", MapGet(pageMap, path).href, <<>>, <<>>)
     ELSE readMarkdown(path)

\* the nav pass of grepDocuments of index.ts
RECURSIVE grepNav(_, _, _)
grepNav(pages, pattern, searchPath) ==
  IF pages = <<>> THEN <<>>
  ELSE LET slug == pages[1].key
           pageInfo == pages[1].val
           filePath == Join(DOCS_DIR, slug \o MD)
           skip == (searchPath # <<>> /\ ~StartsWith(slug, searchPath))
                     \/ pageInfo.disabled \/ pageInfo.href # <<>>
                     \/ ~existsSync(filePath)
           matchCount == countMatches(filePath, RegExp(pattern, <<"g">>))
       IN (IF ~skip /\ matchCount > 0
           THEN <<[uri |-> SCHEME \o slug, matchCount |-> matchCount]>> ELSE <<>>)
            \o grepNav(Tail(pages), pattern, searchPath)

\* the inner loop of the guides and ecosystem passes over the files ls printed
RECURSIVE grepFiles(_, _)
grepFiles(paths, pattern) ==
  IF paths = <<>> THEN <<>>
  ELSE LET matchCount == countMatches(paths[1], RegExp(pattern, <<"g">>))
           relativePath == ReplaceFirst(ReplaceFirst(paths[1], DOCS_DIR \o <<"/">>, <<>>),
                                        MD, <<>>)
       IN (IF matchCount > 0
           THEN <<[uri |-> SCHEME \o relativePath, matchCount |-> matchCount]>>
           ELSE <<>>)
            \o grepFiles(Tail(paths), pattern)

\* the loop of the guides pass over the subdirectories
RECURSIVE grepSubdirs(_, _)
grepSubdirs(subdirs, pattern) ==
  IF subdirs = <<>> THEN <<>>
  ELSE grepFiles(lsMarkdown(Join(Join(DOCS_DIR, GUIDES), subdirs[1])), pattern)
         \o grepSubdirs(Tail(subdirs), pattern)

\* grepDocuments(pattern, searchPath, limit) of index.ts when the pattern
\* compiles: [ok, results]; not ok when getGuidesSubdirs throws
grepDocuments_index(pageMap, pattern, searchPath, limit) ==
  LET inGuides == searchPath = <<>> \/ StartsWith(searchPath, GUIDES)
      inEcosystem == searchPath = <<>> \/ StartsWith(searchPath, ECOSYSTEM)
      subdirs == getGuidesSubdirs
      guides == IF inGuides /\ existsSync(Join(DOCS_DIR, GUIDES))
                THEN grepSubdirs(subdirs.names, pattern) ELSE <<>>
      ecosystem == IF inEcosystem /\ existsSync(Join(DOCS_DIR, ECOSYSTEM))
                   THEN grepFiles(lsMarkdown(Join(DOCS_DIR, ECOSYSTEM)), pattern)
                   ELSE <<>>
  IN IF inGuides /\ ~subdirs.ok THEN [ok |-> FALSE, results |-> <<>>]
     ELSE [ok |-> TRUE,
           results |-> slice0(sortByMatchCount(
                         grepNav(pageMap, pattern, searchPath) \o guides \o ecosystem),
                         limit)]

(***************************************************************************)
(* part_001: the search walks the directory; uris keep the file extension. *)
(***************************************************************************)
BUN_DOC == <<"b", "u", "n", "-", "d", "o", "c", ":", "/", "/">>

\* path.replace(/^\/+|\/+$/g, '')
RECURSIVE trimSlashes(_)
trimSlashes(path) ==
  IF path # <<>> /\ path[1] = "/" THEN trimSlashes(Tail(path))
  ELSE IF path # <<>> /\ path[Len(path)] = "/"
    THEN trimSlashes(SubSeq(path, 1, Len(path) - 1))
  ELSE path

\* path.replace(/\/+/g, '/')
RECURSIVE collapseSlashes(_)
collapseSlashes(path) ==
  IF Len(path) < 2 THEN path
  ELSE IF path[1] = "/" /\ path[2] = "/" THEN collapseSlashes(Tail(path))
  ELSE <<path[1]>> \o collapseSlashes(Tail(path))

\* normalizePath(path)
normalizePath(path) ==
  IF path = <<>> THEN <<>> ELSE collapseSlashes(trimSlashes(path))

\* file.size in bytes; one file of the corpus stands for a document larger
\* than the limit of countMatches, and its text in the model is an excerpt
SizeLimit == 100 * 1024
Size(filePath) ==
  IF filePath = Join(DOCS_DIR, F_esn) THEN SizeLimit + 1 ELSE Len(files[filePath])

\* countMatches(filePath, regex) of part_001
countMatches_p001(filePath, pattern) ==
  IF filePath \notin DOMAIN files THEN 0
  ELSE IF Size(filePath) > SizeLimit THEN 0
  ELSE Len(matchAll(files[filePath], RegExp(pattern, <<"g">>), 1))

\* isTextFile(fileName): extensions .md .txt .js .ts .tsx; the corpus holds .md
isTextFile(fileName) == EndsWith(fileName, MD)

\* the order in which readdirSync lists the entries of the corpus
EntryOrder ==
  <<Join(DOCS_DIR, <<"a">>), Join(DOCS_DIR, F_a), Join(DOCS_DIR, F_aIndex),
    Join(DOCS_DIR, ECOSYSTEM), Join(DOCS_DIR, F_ee),
    Join(DOCS_DIR, ECOSYSTEM \o <<"/", "s">>), Join(DOCS_DIR, F_esn),
    Join(DOCS_DIR, GUIDES), MetaDir, Join(DOCS_DIR, F_gx), Join(DOCS_DIR, F_gxy)>>

\* readdirSync(dirPath): the files and directories immediately in dirPath
readdirSync(dirPath) ==
  Filter(EntryOrder, {e \in DOMAIN files \cup Dirs : Dirname(e) = dirPath})

\* searchDirectory(dirPath, relativePath): the results it pushes
RECURSIVE searchEntries(_, _, _)
searchDirectory(dirPath, relativePath, pattern) ==
  searchEntries(readdirSync(dirPath), relativePath, pattern)

searchEntries(entries, relativePath, pattern) ==
  IF entries = <<>> THEN <<>>
  ELSE LET entryPath == entries[1]
           name == Basename(entryPath)
           entryRelativePath ==
             normalizePath(IF relativePath # <<>> THEN Join(relativePath, name)
                           ELSE name)
           matchCount == countMatches_p001(entryPath, pattern)
       IN (IF entryPath \in Dirs
           THEN searchDirectory(entryPath, entryRelativePath, pattern)
           ELSE IF isTextFile(name) /\ matchCount > 0
           THEN <<[uri |-> BUN_DOC \o entryRelativePath, matchCount |-> matchCount]>>
           ELSE <<>>)
            \o searchEntries(Tail(entries), relativePath, pattern)

\* grepDocuments(pattern, searchPath, limit) of part_001 when the pattern compiles
grepDocuments_p001(pattern, searchPath, limit) ==
  LET normalizedSearchPath == normalizePath(searchPath)
      fullPath == IF normalizedSearchPath # <<>>
                  THEN Join(DOCS_DIR, normalizedSearchPath) ELSE DOCS_DIR
      matchCount == countMatches_p001(fullPath, pattern)
      results ==
        IF fullPath \in Dirs
        THEN searchDirectory(fullPath, normalizedSearchPath, pattern)
        ELSE IF isTextFile(fullPath) /\ matchCount > 0
        THEN <<[uri |-> BUN_DOC \o normalizedSearchPath, matchCount |-> matchCount]>>
        ELSE <<>>
  IN IF ~existsSync(fullPath) THEN <<>>
     ELSE slice0(sortByMatchCount(results), limit)

(***************************************************************************)
(* part_002: the index of part_003 behind two tools, read_bun_doc taking a *)
(* slug, and the download tried for each version candidate in turn.        *)
(***************************************************************************)
\* Bun.version: a release, a pre-release, and a pre-release of some build
BunVersion == <<"1", ".", "2">>
Versions ==
  {BunVersion, BunVersion \o <<"-", "c">>, BunVersion \o <<"-", "c", "+", "x">>,
   BunVersion \o <<"+", "x">>}

\* the candidates without the cut at the build suffix
listVersionCandidates_KeepBuild(version) ==
  LET base == version
      dash == IndexOf(base, <<"-">>)
      release == IF dash > 0 THEN SubSeq(base, 1, dash - 1) ELSE <<>>
  IN IF base = <<>> THEN <<>>
     ELSE IF release # <<>> /\ release # base THEN <<base, release>>
     ELSE <<base>>

\* listVersionCandidates(version): the version without its build suffix,
\* then its release part; a Set keeps each once, in insertion order
listVersionCandidates(version) ==
  LET head == Split(version, "+")[1]
      base == IF head # <<>> THEN head ELSE version
      dash == IndexOf(base, <<"-">>)
      release == IF dash > 0 THEN SubSeq(base, 1, dash - 1) ELSE <<>>
  IN IF base = <<>> THEN <<>>
     ELSE IF release # <<>> /\ release # base THEN <<base, release>>
     ELSE <<base>>

\* lastError of downloadDocsWithFallback: undefined, or the error that the
\* download of a version threw
NoError == [thrown |-> FALSE, version |-> <<>>]
downloadError(version) == [thrown |-> TRUE, version |-> version]

\* input.trim()
RECURSIVE trim(_)
trim(input) ==
  IF input # <<>> /\ input[1] = " " THEN trim(Tail(input))
  ELSE IF input # <<>> /\ input[Len(input)] = " "
    THEN trim(SubSeq(input, 1, Len(input) - 1))
  ELSE input

\* value.replace(/^\/+/, '')
RECURSIVE dropLeadingSlashes(_)
dropLeadingSlashes(value) ==
  IF value # <<>> /\ value[1] = "/" THEN dropLeadingSlashes(Tail(value)) ELSE value

\* value.replace(/\/+$/, '')
RECURSIVE dropTrailingSlashes(_)
dropTrailingSlashes(value) ==
  IF value # <<>> /\ value[Len(value)] = "/"
  THEN dropTrailingSlashes(SubSeq(value, 1, Len(value) - 1))
  ELSE value

\* normalizeSlug(input): the index key of a slug, or the error it throws
normalizeSlug(input) ==
  LET value == trim(input)
      bare == dropTrailingSlashes(dropLeadingSlashes(value))
      slug == IF EndsWith(bare, MD) THEN SubSeq(bare, 1, Len(bare) - 3) ELSE bare
  IN IF value = <<>>
     THEN [ok |-> FALSE, key |-> <<>>, error |-> "Document slug is required"]
     ELSE IF Includes(value, <<":", "/", "/">>)
     THEN [ok |-> FALSE, key |-> <<>>,
           error |-> "Use documentation slugs like runtime/bun-apis"]
     ELSE IF slug = <<>>
     THEN [ok |-> FALSE, key |-> <<>>, error |-> "Document slug is required"]
     ELSE [ok |-> TRUE, key |-> SCHEME \o slug, error |-> ""]

\* readDocument(input) behind the read_bun_doc tool: the text of the
\* document, or a thrown error
readDocument(input, index) ==
  LET key == normalizeSlug(input) IN
  IF ~key.ok THEN Reply("thrown", "", <<>>, <<>>, <<>>)
  ELSE IF ~MapHas(index, key.key) THEN Reply("thrown", "", <<>>, <<>>, <<>>)
  ELSE LET resource == MapGet(index, key.key) IN
    IF resource.filePath = <<>> \/ resource.isDirectory
    THEN Reply("thrown", "", <<>>, <<>>, <<>>)
    ELSE IF resource.filePath \in DOMAIN files
    THEN Reply("document", "text", files[resource.filePath], <<>>, <<>>)
    ELSE Reply("thrown", "", <<>>, <<>>, <<>>)

(***************************************************************************)
(* Requests and replies.                                                   *)
(***************************************************************************)
\* an optional argument that was not supplied
Undefined == [given |-> FALSE, value |-> <<>>]
Given(v) == [given |-> TRUE, value |-> v]
NoLimit == [given |-> FALSE, value |-> 0]

NoRequest ==
  [op |-> "none", uri |-> <<>>, pattern |-> Undefined, path |-> Undefined,
   limit |-> NoLimit, flags |-> Undefined]

NoReply == Reply("none", "", <<>>, <<>>, <<>>)

\* the text after buncument:// of the uris a client reads
ReadPaths ==
  {<<>>, S_a, GUIDES, S_gx, S_gx \o <<"/", "y">>, ECOSYSTEM, S_ee,
   ECOSYSTEM \o <<"/", "s", "/", "n">>, <<"z">>,
   <<"/">> \o S_a, S_a \o <<"/">>, S_a \o MD, GUIDES \o <<"/", "/", "x">>}

\* the path arguments a client gives to read_bun_doc
DocInputs ==
  {<<>>, S_a, <<" ", "/">> \o S_a \o <<"/">>, S_a \o MD,
   S_a \o <<"/">> \o MD, S_gx, GUIDES \o <<"/", "/", "x">>, GUIDES, <<"z">>,
   SCHEME \o S_a}

DocRequests ==
  {[op |-> "read", uri |-> r, pattern |-> Undefined, path |-> Undefined,
    limit |-> NoLimit, flags |-> Undefined] : r \in DocInputs}

ReadRequests ==
  {[op |-> "read", uri |-> r, pattern |-> Undefined, path |-> Undefined,
    limit |-> NoLimit, flags |-> Undefined] : r \in ReadPaths}

ListRequest ==
  [op |-> "list", uri |-> <<>>, pattern |-> Undefined, path |-> Undefined,
   limit |-> NoLimit, flags |-> Undefined]

\* the patterns a client searches: two literals and one that does not compile
ValidPatterns == {<<"a">>, <<"a", "a">>}
InvalidPattern == <<"(">>
SearchPaths ==
  {Undefined, Given(<<>>), Given(GUIDES \o <<"/">>), Given(<<"g", "u", "i", "d", "e", "s", "/", "z">>)}
SearchLimits == {NoLimit} \cup {Given(n) : n \in -1..MaxLimit}

SearchRequests ==
  {[op |-> "search", uri |-> <<>>, pattern |-> Given(p), path |-> sp, limit |-> l,
    flags |-> Undefined] :
     p \in ValidPatterns, sp \in SearchPaths, l \in SearchLimits}
    \cup {[op |-> "search", uri |-> <<>>, pattern |-> p, path |-> Undefined,
           limit |-> NoLimit, flags |-> Undefined] : p \in {Undefined, Given(InvalidPattern)}}

\* the flags arguments a client gives to grep_bun_docs of part_002
FlagInputs ==
  {Given(<<>>), Given(<<"i">>), Given(<<"g", "i">>), Given(<<"i", "i">>),
   Given(<<"x">>), Given(<<"y", "x">>), Given(<<"m", "s", "u">>)}

\* the searches with flags: a and n occur in the corpus, N only in capitals
FlagRequests ==
  {[op |-> "search", uri |-> <<>>, pattern |-> Given(p), path |-> Undefined,
    limit |-> NoLimit, flags |-> f] : p \in {<<"a">>, <<"n">>}, f \in FlagInputs}

\* the tool with a handler that swallows the error and reports no results
grepTool_Swallow(index, req) ==
  IF ~req.pattern.given \/ ~Compiles(req.pattern.value)
  THEN Reply("results", "", <<>>, <<>>, <<>>)
  ELSE Reply("results", "", <<>>, <<>>,
             grepDocuments(index, req.pattern.value, req.path.value,
                           IF req.limit.given THEN req.limit.value
                           ELSE DEFAULT_SEARCH_LIMIT,
                           IF gen = "p002" THEN finalFlags(req.flags) ELSE <<"g">>))

\* the grep_bun_docs tool of part_003: the schema requires a pattern, the
\* limit defaults to DEFAULT_SEARCH_LIMIT, and an error of grepDocuments is
\* thrown again as a Grep error
grepTool(index, req) ==
  IF ~req.pattern.given \/ ~Compiles(req.pattern.value)
  THEN Reply("thrown", "", <<>>, <<>>, <<>>)
  ELSE Reply("results", "", <<>>, <<>>,
             grepDocuments(index, req.pattern.value, req.path.value,
                           IF req.limit.given THEN req.limit.value
                           ELSE DEFAULT_SEARCH_LIMIT,
                           IF gen = "p002" THEN finalFlags(req.flags) ELSE <<"g">>))

\* the grep_docs tool of part_001: no pattern, or an empty one, is refused
grepTool_p001(req) ==
  IF ~req.pattern.given \/ req.pattern.value = <<>> \/ ~Compiles(req.pattern.value)
  THEN Reply("thrown", "", <<>>, <<>>, <<>>)
  ELSE Reply("results", "", <<>>, <<>>,
             grepDocuments_p001(req.pattern.value, req.path.value,
                                IF req.limit.given THEN req.limit.value
                                ELSE DEFAULT_SEARCH_LIMIT))

\* the grep_bun_docs tool of index.ts
grepTool_index(pageMap, req) ==
  LET found == grepDocuments_index(pageMap, req.pattern.value, req.path.value,
                                   IF req.limit.given THEN req.limit.value
                                   ELSE DEFAULT_SEARCH_LIMIT)
  IN IF ~req.pattern.given \/ ~Compiles(req.pattern.value) \/ ~found.ok
     THEN Reply("thrown", "", <<>>, <<>>, <<>>)
     ELSE Reply("results", "", <<>>, <<>>, found.results)

(***************************************************************************)
(* The top-level script of index.ts and part_003 once initializeDocsDir     *)
(* has returned.                                                           *)
(***************************************************************************)
Gens == {"p001", "index", "p003", "p002"}

Init ==
  /\ gen \in Gens
  /\ pc = "located"
  /\ isTTY \in (IF gen = "p001" THEN {FALSE} ELSE BOOLEAN)
  /\ githubOnly = FALSE
  /\ localDir = FALSE
  /\ cache = "withNav"
  /\ cacheOps = {"probe"}
  /\ fetches = 0
  /\ docsDir = "cache"
  /\ stderr = <<>>
  /\ exitCode = -1
  /\ \E c \in Corpora : files = c.files /\ indexJson = c.indexJson
  /\ navSource \in (IF gen = "p001" THEN {[ok |-> FALSE, items |-> <<>>]}
                    ELSE NavSources)
  /\ PAGE_MAP = <<>>
  /\ RESOURCE_INDEX = <<>>
  /\ TOTAL_RESOURCE_COUNT = 0
  /\ stdout = <<>>
  /\ connected = FALSE
  /\ request = NoRequest
  /\ response = NoReply
  /\ bunVersion = BunVersion
  /\ attempts = <<>>
  /\ lastError = NoError
  /\ roundLog = <<>>
  /\ fetchLog = <<>>
  /\ tempDir = "absent"
  /\ procs = <<>>
  /\ temps = <<>>
  /\ targetDir = "absent"

\* const PAGE_MAP = await parseNavigation(): index.ts and part_003 log a
\* failure and go on with the pages set so far; part_002 throws it again, and
\* the rejected top-level await ends the process
ParseNavigation ==
  /\ pc = "located"
  /\ gen \in {"index", "p003", "p002"}
  /\ stderr' = IF navSource.ok THEN stderr
               ELSE Append(stderr, <<"Failed to parse nav.ts:">>)
  /\ IF gen = "p002" /\ ~navSource.ok
     THEN pc' = "crashed" /\ exitCode' = 1 /\ UNCHANGED PAGE_MAP
     ELSE /\ PAGE_MAP' = parseNavigation(navSource)
          /\ pc' = "parsed"
          /\ UNCHANGED exitCode
  /\ UNCHANGED <<gen, isTTY, githubOnly, localDir, cache, cacheOps, fetches,
                 docsDir, files, indexJson, navSource, RESOURCE_INDEX,
                 TOTAL_RESOURCE_COUNT, stdout, connected, request, response>>
  /\ UNCHANGED fallbackVars
  /\ UNCHANGED raceVars
  /\ UNCHANGED fetchVars

\* print(s): logs when stdout is a terminal
print(out, s) == IF isTTY THEN Append(out, s) ELSE out

\* await buildResourceIndex()
BuildResourceIndex ==
  /\ pc = "parsed"
  /\ gen \in {"p003", "p002"}
  /\ RESOURCE_INDEX' = builtIndex(PAGE_MAP)
  /\ TOTAL_RESOURCE_COUNT' = Len(builtIndex(PAGE_MAP))
  /\ stdout' = print(print(print(print(stdout, <<"Indexed nav pages">>),
                 <<"Indexed guides files">>), <<"Indexed ecosystem files">>),
                 <<"Total indexed resources">>)
  /\ pc' = "built"
  /\ UNCHANGED <<gen, isTTY, githubOnly, localDir, cache, cacheOps, fetches,
                 docsDir, stderr, exitCode, files, indexJson, navSource, PAGE_MAP,
                 connected, request, response>>
  /\ UNCHANGED fallbackVars
  /\ UNCHANGED raceVars
  /\ UNCHANGED fetchVars

\* the line that tells where the documents are cached
CachedLine == <<"Bun documents cached in", docsDir>>

\* the terminal check printing the line and then attaching the transport
TtyExit_Attach ==
  /\ gen \in {"index", "p003", "p002"}
  /\ pc = (IF gen = "index" THEN "parsed" ELSE "built")
  /\ isTTY
  /\ stdout' = Append(stdout, CachedLine)
  /\ connected' = TRUE
  /\ pc' = "serving"
  /\ UNCHANGED <<gen, isTTY, githubOnly, localDir, cache, cacheOps, fetches,
                 docsDir, stderr, exitCode, files, indexJson, navSource, PAGE_MAP,
                 RESOURCE_INDEX, TOTAL_RESOURCE_COUNT, request, response>>
  /\ UNCHANGED fallbackVars
  /\ UNCHANGED raceVars
  /\ UNCHANGED fetchVars

\* if (print(`Bun documents cached in ...`)) process.exit(0)
TtyExit ==
  /\ gen \in {"index", "p003", "p002"}
  /\ pc = (IF gen = "index" THEN "parsed" ELSE "built")
  /\ isTTY
  /\ stdout' = Append(stdout, CachedLine)
  /\ exitCode' = 0
  /\ pc' = "exited"
  /\ UNCHANGED <<gen, isTTY, githubOnly, localDir, cache, cacheOps, fetches,
                 docsDir, stderr, files, indexJson, navSource, PAGE_MAP,
                 RESOURCE_INDEX, TOTAL_RESOURCE_COUNT, connected, request,
                 response>>
  /\ UNCHANGED fallbackVars
  /\ UNCHANGED raceVars
  /\ UNCHANGED fetchVars

\* the transport connected as soon as the page map is there
Connect_Early ==
  /\ pc = (IF gen \in {"p003", "p002", "index"} THEN "parsed" ELSE "located")
  /\ gen = "p001" \/ ~isTTY
  /\ connected' = TRUE
  /\ pc' = "serving"
  /\ UNCHANGED <<gen, isTTY, githubOnly, localDir, cache, cacheOps, fetches,
                 docsDir, stderr, exitCode, files, indexJson, navSource, PAGE_MAP,
                 RESOURCE_INDEX, TOTAL_RESOURCE_COUNT, stdout, request, response>>
  /\ UNCHANGED fallbackVars
  /\ UNCHANGED raceVars
  /\ UNCHANGED fetchVars

\* await server.connect(transport)
Connect ==
  /\ pc = (IF gen \in {"p003", "p002"} THEN "built"
           ELSE IF gen = "index" THEN "parsed" ELSE "located")
  /\ gen = "p001" \/ ~isTTY
  /\ connected' = TRUE
  /\ pc' = "serving"
  /\ UNCHANGED <<gen, isTTY, githubOnly, localDir, cache, cacheOps, fetches,
                 docsDir, stderr, exitCode, files, indexJson, navSource, PAGE_MAP,
                 RESOURCE_INDEX, TOTAL_RESOURCE_COUNT, stdout, request, response>>
  /\ UNCHANGED fallbackVars
  /\ UNCHANGED raceVars
  /\ UNCHANGED fetchVars

\* a search without a pattern, or with one that does not compile
BadPattern(req) ==
  req.op = "search" /\ (~req.pattern.given \/ ~Compiles(req.pattern.value))

\* the server takes a request when it is idle, or right after it has refused
\* a search for its pattern
Ready == pc = "serving" /\ (request = NoRequest \/ BadPattern(request))

startupVars ==
  <<gen, pc, isTTY, githubOnly, localDir, cache, cacheOps, fetches, docsDir,
    stderr, exitCode, files, indexJson, navSource, PAGE_MAP, RESOURCE_INDEX,
    TOTAL_RESOURCE_COUNT, stdout, connected, bunVersion, attempts, lastError,
    roundLog, fetchLog, tempDir, procs, temps, targetDir>>

\* resources/read
Read ==
  /\ Ready
  /\ gen \in {"index", "p003"}
  /\ \E req \in ReadRequests :
       /\ request' = req
       /\ response' = IF gen = "p003"
                      THEN handleResourceRequest(req.uri, RESOURCE_INDEX)
                      ELSE handleResourceRequest_index(req.uri, PAGE_MAP)
  /\ UNCHANGED startupVars

\* resources/list
List ==
  /\ Ready
  /\ gen \in {"index", "p003"}
  /\ request' = ListRequest
  /\ response' = Reply("list", "", <<>>,
                        IF gen = "p003" THEN getAllPagesResources(RESOURCE_INDEX)
                        ELSE getAllPagesResources_index(PAGE_MAP),
                        <<>>)
  /\ UNCHANGED startupVars

\* tools/call read_bun_doc
ReadDoc ==
  /\ Ready
  /\ gen = "p002"
  /\ \E req \in DocRequests :
       /\ request' = req
       /\ response' = readDocument(req.uri, RESOURCE_INDEX)
  /\ UNCHANGED startupVars

\* tools/call grep_bun_docs
Search ==
  /\ Ready
  /\ \E req \in SearchRequests \cup (IF gen = "p002" THEN FlagRequests ELSE {}) :
       /\ request' = req
       /\ response' = IF gen \in {"p003", "p002"} THEN grepTool(RESOURCE_INDEX, req)
                      ELSE IF gen = "index" THEN grepTool_index(PAGE_MAP, req)
                      ELSE grepTool_p001(req)
  /\ UNCHANGED startupVars

\* the reply has been sent and the exchange is forgotten
Idle ==
  /\ pc = "serving"
  /\ request # NoRequest
  /\ request' = NoRequest
  /\ response' = NoReply
  /\ UNCHANGED startupVars

Next ==
  \/ ParseNavigation
  \/ BuildResourceIndex
  \/ TtyExit
  \/ Connect
  \/ Read
  \/ List
  \/ ReadDoc
  \/ Search
  \/ Idle

Spec == Init /\ [][Next]_vars


(***************************************************************************)
(* The corpus locator: the top-level script from the start of the process  *)
(* until initializeDocsDir returns or the process ends.                    *)
(***************************************************************************)
InitLocator ==
  /\ gen \in Gens
  /\ pc = "start"
  /\ isTTY \in BOOLEAN
  /\ githubOnly \in BOOLEAN
  /\ localDir \in BOOLEAN
  /\ cache \in {"absent", "noNav", "withNav"}
  /\ cacheOps = {}
  /\ fetches = 0
  /\ docsDir = "none"
  /\ stderr = <<>>
  /\ exitCode = -1
  /\ files = <<>>
  /\ indexJson = <<>>
  /\ navSource \in (IF gen = "p001" THEN {[ok |-> FALSE, items |-> <<>>]}
                    ELSE {[ok |-> FALSE, items |-> <<>>], [ok |-> TRUE, items |-> <<>>]})
  /\ PAGE_MAP = <<>>
  /\ RESOURCE_INDEX = <<>>
  /\ TOTAL_RESOURCE_COUNT = 0
  /\ stdout = <<>>
  /\ connected = FALSE
  /\ request = NoRequest
  /\ response = NoReply
  /\ bunVersion \in (IF gen = "p002" THEN Versions ELSE {BunVersion})
  /\ attempts = <<>>
  /\ lastError = NoError
  /\ roundLog = <<>>
  /\ fetchLog = <<>>
  /\ tempDir = "absent"
  /\ procs = <<>>
  /\ temps = <<>>
  /\ targetDir = "absent"

\* one call of downloadDocsFromGitHub, in the round that is running
Fetched(version, ok) ==
  [round |-> Len(roundLog), version |-> version, ok |-> ok]

servingVars ==
  <<gen, isTTY, githubOnly, localDir, files, indexJson, navSource, PAGE_MAP,
    RESOURCE_INDEX, TOTAL_RESOURCE_COUNT, stdout, connected, request, response>>

\* initializeDocsDir of part_001 up to its first await or its return
Locate_p001 ==
  /\ pc = "start"
  /\ gen = "p001"
  /\ IF ~githubOnly /\ localDir
     THEN /\ pc' = "located"
          /\ docsDir' = "local"
          /\ UNCHANGED cacheOps
     ELSE /\ cacheOps' = cacheOps \cup {"probe"}
          /\ IF cache = "absent"
             THEN pc' = "download" /\ UNCHANGED docsDir
             ELSE pc' = "located" /\ docsDir' = "cache"
  /\ roundLog' = IF pc' = "download" THEN Append(roundLog, "initial") ELSE roundLog
  /\ UNCHANGED <<cache, fetches, stderr, exitCode, fetchLog, tempDir>>
  /\ UNCHANGED servingVars
  /\ UNCHANGED fallbackVars
  /\ UNCHANGED raceVars

\* await downloadDocsFromGitHub(...) of part_001, then return cacheDocsDir; a
\* failed command throws and ends the process
Download_p001 ==
  /\ pc = "download"
  /\ gen = "p001"
  /\ fetches' = fetches + 1
  /\ \/ /\ cache' \in {"noNav", "withNav"}
        /\ pc' = "located"
        /\ docsDir' = "cache"
        /\ fetchLog' = Append(fetchLog, Fetched(bunVersion, TRUE))
        /\ UNCHANGED exitCode
     \/ /\ pc' = "crashed"
        /\ exitCode' = 1
        /\ fetchLog' = Append(fetchLog, Fetched(bunVersion, FALSE))
        /\ UNCHANGED <<cache, docsDir>>
  /\ tempDir' = "absent"
  /\ UNCHANGED <<cacheOps, stderr, roundLog>>
  /\ UNCHANGED servingVars
  /\ UNCHANGED fallbackVars
  /\ UNCHANGED raceVars

\* the first check of index.ts, part_003 and part_002: download when the
\* directory is missing
FirstCheck ==
  /\ pc = "start"
  /\ gen \in {"index", "p003", "p002"}
  /\ cacheOps' = cacheOps \cup {"probe"}
  /\ pc' = IF cache = "absent" THEN "download1" ELSE "checkNav"
  /\ roundLog' = IF cache = "absent" THEN Append(roundLog, "initial") ELSE roundLog
  /\ attempts' = <<>>
  /\ lastError' = NoError
  /\ UNCHANGED <<cache, fetches, docsDir, stderr, exitCode, bunVersion, fetchLog,
                 tempDir>>
  /\ UNCHANGED raceVars
  /\ UNCHANGED servingVars

\* the temporary directory left as it is when the download is over
cleanupTemp_Skip(temp) == temp

\* cleanupTemp() of downloadDocsFromGitHub: rm -rf of the temporary directory
\* of this call (a failure of rm itself, which the code ignores, is left out)
cleanupTemp(temp) == "absent"

\* downloadDocsFromGitHub(version, targetDir) of index.ts, part_003 and
\* part_002 logs the tag it downloads once the checkout starts.
DownloadingLine(version) ==
  <<"Downloading Bun documents for", <<"b", "u", "n", "-", "v">> \o version>>

\* The states of targetDir that downloadDocsFromGitHub can leave when it
\* returns.  It removes targetDir, ignoring a failure, and then moves the
\* checkout to targetDir: when the removal left a directory there, mv puts the
\* checkout inside what is left of it (mixed).
downloaded(target) ==
  IF target = "absent" THEN {"noNav", "withNav"}
  ELSE {"noNav", "withNav", "mixed"}

\* The states of targetDir it can leave when it throws: untouched when the
\* checkout failed, absent when mv failed after the removal, or what a failed
\* removal and a failed mv left of it.
downloadFailed(target) ==
  IF target = "absent" THEN {"absent"} ELSE {target, "absent", "mixed"}

\* await downloadDocsFromGitHub(...) of the first check
Download1 ==
  /\ pc = "download1"
  /\ gen \in {"index", "p003"}
  /\ fetches' = fetches + 1
  /\ \/ /\ cache' \in downloaded(cache)
        /\ pc' = "checkNav"
        /\ stderr' = Append(stderr, DownloadingLine(bunVersion))
        /\ fetchLog' = Append(fetchLog, Fetched(bunVersion, TRUE))
        /\ tempDir' = cleanupTemp("present")
        /\ UNCHANGED exitCode
     \/ /\ cache' \in downloadFailed(cache)
        /\ stderr' \in {stderr, Append(stderr, DownloadingLine(bunVersion))}
        /\ fetchLog' = Append(fetchLog, Fetched(bunVersion, FALSE))
        /\ \E temp \in {"absent", "present"} : tempDir' = cleanupTemp(temp)
        /\ pc' = "crashed"
        /\ exitCode' = 1
  /\ UNCHANGED <<cacheOps, docsDir, roundLog>>
  /\ UNCHANGED servingVars
  /\ UNCHANGED fallbackVars
  /\ UNCHANGED raceVars

\* the second check: return when nav.ts exists, else remove the directory
\* (a failure of rm is ignored) and download again
CheckNav ==
  /\ pc = "checkNav"
  /\ IF cache = "withNav"
     THEN /\ pc' = "located"
          /\ docsDir' = "cache"
          /\ UNCHANGED <<cache, cacheOps, stderr, roundLog>>
     ELSE /\ stderr' = Append(stderr, <<"nav.ts not found, re-downloading docs...">>)
          /\ cache' \in {"absent", cache}
          /\ cacheOps' = cacheOps \cup {"remove"}
          /\ roundLog' = Append(roundLog, "refetch")
          /\ pc' = "download2"
          /\ UNCHANGED docsDir
  /\ attempts' = <<>>
  /\ lastError' = NoError
  /\ UNCHANGED <<fetches, exitCode, bunVersion, fetchLog, tempDir>>
  /\ UNCHANGED raceVars
  /\ UNCHANGED servingVars

\* await downloadDocsFromGitHub(...) of the second check
Download2 ==
  /\ pc = "download2"
  /\ gen \in {"index", "p003"}
  /\ fetches' = fetches + 1
  /\ \/ /\ cache' \in downloaded(cache)
        /\ pc' = "finalCheck"
        /\ stderr' = Append(stderr, DownloadingLine(bunVersion))
        /\ fetchLog' = Append(fetchLog, Fetched(bunVersion, TRUE))
        /\ tempDir' = cleanupTemp("present")
        /\ UNCHANGED exitCode
     \/ /\ cache' \in downloadFailed(cache)
        /\ stderr' \in {stderr, Append(stderr, DownloadingLine(bunVersion))}
        /\ fetchLog' = Append(fetchLog, Fetched(bunVersion, FALSE))
        /\ \E temp \in {"absent", "present"} : tempDir' = cleanupTemp(temp)
        /\ pc' = "crashed"
        /\ exitCode' = 1
  /\ UNCHANGED <<cacheOps, docsDir, roundLog>>
  /\ UNCHANGED servingVars
  /\ UNCHANGED fallbackVars
  /\ UNCHANGED raceVars

\* one turn of the loop of downloadDocsWithFallback (part_002): the download
\* of the next candidate; a success returns, a failure is kept as lastError
TryCandidate ==
  /\ pc \in {"download1", "download2"}
  /\ gen = "p002"
  /\ Len(attempts) < Len(listVersionCandidates(bunVersion))
  /\ LET version == listVersionCandidates(bunVersion)[Len(attempts) + 1] IN
     /\ fetches' = fetches + 1
     /\ \/ /\ cache' \in downloaded(cache)
           /\ attempts' = Append(attempts, [version |-> version, ok |-> TRUE])
           /\ fetchLog' = Append(fetchLog, Fetched(version, TRUE))
           /\ tempDir' = cleanupTemp("present")
           /\ stderr' = Append(stderr, DownloadingLine(version))
           /\ pc' = IF pc = "download1" THEN "checkNav" ELSE "finalCheck"
           /\ UNCHANGED lastError
        \/ /\ cache' \in downloadFailed(cache)
           /\ attempts' = Append(attempts, [version |-> version, ok |-> FALSE])
           /\ fetchLog' = Append(fetchLog, Fetched(version, FALSE))
           /\ \E temp \in {"absent", "present"} : tempDir' = cleanupTemp(temp)
           /\ stderr' \in {stderr, Append(stderr, DownloadingLine(version))}
           /\ lastError' = downloadError(version)
           /\ UNCHANGED pc
  /\ UNCHANGED <<cacheOps, docsDir, exitCode, bunVersion, roundLog>>
  /\ UNCHANGED raceVars
  /\ UNCHANGED servingVars

\* the end of the loop throwing the error of the first candidate
FallbackThrow_First ==
  /\ pc \in {"download1", "download2"}
  /\ gen = "p002"
  /\ Len(attempts) = Len(listVersionCandidates(bunVersion))
  /\ IF lastError.thrown
     THEN /\ stderr' = Append(stderr, <<"Failed to download docs:", attempts[1].version>>)
          /\ exitCode' = 1
          /\ pc' = "crashed"
     ELSE /\ pc' = IF pc = "download1" THEN "checkNav" ELSE "finalCheck"
          /\ UNCHANGED <<stderr, exitCode>>
  /\ UNCHANGED <<cache, cacheOps, fetches, docsDir>>
  /\ UNCHANGED servingVars
  /\ UNCHANGED fallbackVars
  /\ UNCHANGED raceVars
  /\ UNCHANGED fetchVars

\* the end of the loop of downloadDocsWithFallback: lastError is thrown, the
\* rejected top-level await prints it and ends the process; with no candidate
\* there is no error and the function returns
FallbackThrow ==
  /\ pc \in {"download1", "download2"}
  /\ gen = "p002"
  /\ Len(attempts) = Len(listVersionCandidates(bunVersion))
  /\ IF lastError.thrown
     THEN /\ stderr' = Append(stderr, <<"Failed to download docs:", lastError.version>>)
          /\ exitCode' = 1
          /\ pc' = "crashed"
     ELSE /\ pc' = IF pc = "download1" THEN "checkNav" ELSE "finalCheck"
          /\ UNCHANGED <<stderr, exitCode>>
  /\ UNCHANGED <<cache, cacheOps, fetches, docsDir>>
  /\ UNCHANGED servingVars
  /\ UNCHANGED fallbackVars
  /\ UNCHANGED raceVars
  /\ UNCHANGED fetchVars

\* the final check without the exit: the directory is returned as it is
FinalCheck_NoExit ==
  /\ pc = "finalCheck"
  /\ pc' = "located"
  /\ docsDir' = "cache"
  /\ UNCHANGED <<stderr, exitCode, cache, cacheOps, fetches>>
  /\ UNCHANGED servingVars
  /\ UNCHANGED fallbackVars
  /\ UNCHANGED raceVars
  /\ UNCHANGED fetchVars

\* the final check going back to the second check when nav.ts is missing
FinalCheck_Again ==
  /\ pc = "finalCheck"
  /\ IF cache = "withNav"
     THEN pc' = "located" /\ docsDir' = "cache"
     ELSE pc' = "checkNav" /\ UNCHANGED docsDir
  /\ UNCHANGED <<stderr, exitCode, cache, cacheOps, fetches>>
  /\ UNCHANGED servingVars
  /\ UNCHANGED fallbackVars
  /\ UNCHANGED raceVars
  /\ UNCHANGED fetchVars

\* the final check: nav.ts still missing ends the process with code 1
FinalCheck ==
  /\ pc = "finalCheck"
  /\ IF cache = "withNav"
     THEN /\ pc' = "located"
          /\ docsDir' = "cache"
          /\ UNCHANGED <<stderr, exitCode>>
     ELSE /\ stderr' = stderr \o
                 << <<"Error: nav.ts not found in Bun", bunVersion, "documentation.">>,
                    <<"This may indicate an incompatible Bun version or repository structure change.">> >>
          /\ exitCode' = 1
          /\ pc' = "exited"
          /\ UNCHANGED docsDir
  /\ UNCHANGED <<cache, cacheOps, fetches>>
  /\ UNCHANGED servingVars
  /\ UNCHANGED fallbackVars
  /\ UNCHANGED raceVars
  /\ UNCHANGED fetchVars

\* the whole program, from the start of the process
NextLocator ==
  \/ Locate_p001
  \/ Download_p001
  \/ FirstCheck
  \/ Download1
  \/ CheckNav
  \/ Download2
  \/ TryCandidate
  \/ FallbackThrow
  \/ FinalCheck
  \/ Next

SpecLocator == InitLocator /\ [][NextLocator]_vars


(***************************************************************************)
(* Concurrent downloads: MaxProcs server processes of one generation start *)
(* for the same version, find no cache directory and each run              *)
(* downloadDocsFromGitHub(version, targetDir) on the same targetDir.  Every *)
(* awaited command is one step; the steps of the processes interleave.     *)
(***************************************************************************)
Procs == 1..MaxProcs

\* const tempDir: index.ts and part_003 join the fixed name .tmp-git (path 0),
\* part_002 takes a fresh name from mkdtempSync (path p of process p)
tempPath(p) == IF gen = "p002" THEN p ELSE 0

\* no directory at a path
NoTemp == [owner |-> 0, docs |-> FALSE]

\* everything but the concurrent downloads
serverVars ==
  <<pc, isTTY, githubOnly, localDir, cache, cacheOps, fetches, docsDir, stderr,
    exitCode, files, indexJson, navSource, PAGE_MAP, RESOURCE_INDEX,
    TOTAL_RESOURCE_COUNT, stdout, connected, request, response, bunVersion,
    attempts, lastError, roundLog, fetchLog, tempDir>>

InitRace ==
  /\ gen \in {"index", "p003", "p002"}
  /\ pc = "start"
  /\ isTTY = FALSE
  /\ githubOnly = FALSE
  /\ localDir = FALSE
  /\ cache = "absent"
  /\ cacheOps = {"probe"}
  /\ fetches = 0
  /\ docsDir = "none"
  /\ stderr = <<>>
  /\ exitCode = -1
  /\ files = <<>>
  /\ indexJson = <<>>
  /\ navSource = [ok |-> TRUE, items |-> <<>>]
  /\ PAGE_MAP = <<>>
  /\ RESOURCE_INDEX = <<>>
  /\ TOTAL_RESOURCE_COUNT = 0
  /\ stdout = <<>>
  /\ connected = FALSE
  /\ request = NoRequest
  /\ response = NoReply
  /\ bunVersion = BunVersion
  /\ attempts = <<>>
  /\ lastError = NoError
  /\ roundLog = <<>>
  /\ fetchLog = <<>>
  /\ tempDir = "absent"
  /\ procs = [p \in Procs |-> [at |-> "start", threw |-> FALSE]]
  /\ temps = [t \in 0..MaxProcs |-> NoTemp]
  /\ targetDir = "absent"

\* A process goes from one awaited command to the next; a command that
\* fails throws, which takes the process to the finally block.

\* mkdirSync, then await cleanupTemp() before the clone (index.ts, part_003)
\* or mkdtempSync (part_002)
RaceStart(p) ==
  /\ procs[p].at = "start"
  /\ temps' = [temps EXCEPT ![tempPath(p)] =
                  IF gen = "p002" THEN [owner |-> p, docs |-> FALSE] ELSE NoTemp]
  /\ procs' = [procs EXCEPT ![p] = [at |-> "clone", threw |-> FALSE]]
  /\ UNCHANGED targetDir
  /\ UNCHANGED <<gen, serverVars>>

\* git clone ... tempDir: fails on the network, or on a tempDir that another
\* clone has filled
RaceClone(p) ==
  /\ procs[p].at = "clone"
  /\ \/ /\ temps[tempPath(p)].owner \in {0, p}
        /\ temps' = [temps EXCEPT ![tempPath(p)] = [owner |-> p, docs |-> FALSE]]
        /\ procs' = [procs EXCEPT ![p] = [at |-> "sparse", threw |-> FALSE]]
     \/ /\ procs' = [procs EXCEPT ![p] = [at |-> "finally", threw |-> TRUE]]
        /\ UNCHANGED temps
  /\ UNCHANGED targetDir
  /\ UNCHANGED <<gen, serverVars>>

\* cd tempDir && git sparse-checkout set docs, on whatever clone is at
\* tempDir; then existsSync(sourceDir)
RaceSparseCheckout(p) ==
  /\ procs[p].at = "sparse"
  /\ IF temps[tempPath(p)].owner = 0
     THEN procs' = [procs EXCEPT ![p] = [at |-> "finally", threw |-> TRUE]] /\ UNCHANGED temps
     ELSE \/ /\ temps' = [temps EXCEPT ![tempPath(p)].docs = TRUE]
             /\ procs' = [procs EXCEPT ![p] = [at |-> "remove", threw |-> FALSE]]
          \/ /\ procs' = [procs EXCEPT ![p] = [at |-> "finally", threw |-> TRUE]]
             /\ UNCHANGED temps
  /\ UNCHANGED targetDir
  /\ UNCHANGED <<gen, serverVars>>

\* rm -rf targetDir, a failure ignored
RaceRemoveTarget(p) ==
  /\ procs[p].at = "remove"
  /\ targetDir' \in {"absent", targetDir}
  /\ procs' = [procs EXCEPT ![p] = [at |-> "move", threw |-> FALSE]]
  /\ UNCHANGED temps
  /\ UNCHANGED <<gen, serverVars>>

\* mv sourceDir targetDir: into targetDir when that is a directory by now
RaceMove(p) ==
  /\ procs[p].at = "move"
  /\ IF temps[tempPath(p)].docs
     THEN /\ temps' = [temps EXCEPT ![tempPath(p)].docs = FALSE]
          /\ targetDir' = IF targetDir = "absent" THEN "complete" ELSE "mixed"
          /\ procs' = [procs EXCEPT ![p] = [at |-> "finally", threw |-> FALSE]]
     ELSE /\ procs' = [procs EXCEPT ![p] = [at |-> "finally", threw |-> TRUE]]
          /\ UNCHANGED <<temps, targetDir>>
  /\ UNCHANGED <<gen, serverVars>>

\* finally: await cleanupTemp()
RaceCleanup(p) ==
  /\ procs[p].at = "finally"
  /\ temps' = [temps EXCEPT ![tempPath(p)] = NoTemp]
  /\ procs' = [procs EXCEPT ![p].at = "done"]
  /\ UNCHANGED targetDir
  /\ UNCHANGED <<gen, serverVars>>

NextRace ==
  \E p \in Procs :
    \/ RaceStart(p)
    \/ RaceClone(p)
    \/ RaceSparseCheckout(p)
    \/ RaceRemoveTarget(p)
    \/ RaceMove(p)
    \/ RaceCleanup(p)

SpecRace == InitRace /\ [][NextRace]_vars


(***************************************************************************)
(* The claims.                                                             *)
(***************************************************************************)
Serving == pc = "serving"

\* a page that is neither disabled nor external
NormalPage(pageInfo) == ~pageInfo.disabled /\ pageInfo.href = <<>>

\* the replies that serve no local content
NotFoundKinds == {"notfound", "disabled", "external", "filenotfound", "dirnotfound"}

\* the uris of the entries of a listing, or of the results of a search
Uris(seq) == {seq[i].uri : i \in 1..Len(seq)}

\* the limit a search runs with
EffectiveLimit(req) == IF req.limit.given THEN req.limit.value ELSE DEFAULT_SEARCH_LIMIT

\* the path prefix a search runs with
EffectivePath(req) == IF req.path.given THEN req.path.value ELSE <<>>

\* C1: reading the slug of a manifest page that is neither disabled nor
\* external and whose backing file (slug.md, else slug/index.md) exists
\* returns a text/markdown document holding the content of that file, whatever
\* else the manifest and the guides and ecosystem trees hold.
C1_Claim ==
  (/\ Serving
   /\ gen \in {"index", "p003"}
   /\ request.op = "read"
   /\ MapHas(PAGE_MAP, request.uri)
   /\ NormalPage(MapGet(PAGE_MAP, request.uri))
   /\ navFilePath(request.uri) # <<>>)
  => /\ response.kind = "document"
     /\ response.mimeType = "text/markdown"
     /\ response.text = files[navFilePath(request.uri)]

\* C2: a disabled manifest page is never resolved, never listed at the root
\* and never returned by a search, also when a file for its slug lies in the
\* guides or ecosystem tree.
C2_Claim ==
  (Serving /\ gen \in {"index", "p003"}) =>
    \A i \in 1..Len(PAGE_MAP) :
      PAGE_MAP[i].val.disabled =>
        /\ (request.op = "read" /\ request.uri = PAGE_MAP[i].key)
             => response.kind \in NotFoundKinds
        /\ (request.op = "list" \/ response.kind = "root")
             => SCHEME \o PAGE_MAP[i].key \notin Uris(response.entries)
        /\ SCHEME \o PAGE_MAP[i].key \notin Uris(response.results)

\* C3: an external manifest page (href set, and so without a backing file) is
\* never resolved to local content and never listed at the root.
C3_Claim ==
  (Serving /\ gen \in {"index", "p003"}) =>
    \A i \in 1..Len(PAGE_MAP) :
      (PAGE_MAP[i].val.href # <<>> /\ navFilePath(PAGE_MAP[i].key) = <<>>) =>
        /\ (request.op = "read" /\ request.uri = PAGE_MAP[i].key)
             => response.kind \in NotFoundKinds
        /\ (request.op = "list" \/ response.kind = "root")
             => SCHEME \o PAGE_MAP[i].key \notin Uris(response.entries)

\* C4: once the index is built, the record under the uri of every indexed
\* manifest page still has the title, description and file path of the page,
\* whatever the guides and ecosystem crawls found under the same uri.
C4_Claim ==
  (gen = "p003" /\ pc \in {"built", "serving", "exited"}) =>
    \A i \in 1..Len(PAGE_MAP) :
      (NormalPage(PAGE_MAP[i].val) /\ navFilePath(PAGE_MAP[i].key) # <<>>) =>
        /\ MapHas(RESOURCE_INDEX, SCHEME \o PAGE_MAP[i].key)
        /\ LET r == MapGet(RESOURCE_INDEX, SCHEME \o PAGE_MAP[i].key) IN
           /\ r.name = PAGE_MAP[i].val.title
           /\ r.description = pageDescription(PAGE_MAP[i].val)
           /\ r.filePath = navFilePath(PAGE_MAP[i].key)


\* the process ended with the diagnostic that names the version
VersionDiagnostic ==
  \E i \in 1..Len(stderr) : Len(stderr[i]) = 3 /\ stderr[i][2] = bunVersion

\* nothing of index construction or serving has happened
NothingServed ==
  PAGE_MAP = <<>> /\ RESOURCE_INDEX = <<>> /\ ~connected /\ request = NoRequest

\* what C5 says of a run
C5_Holds ==
  /\ docsDir = "cache" => cache = "withNav"
  /\ (fetches = 2 /\ cache # "withNav") => pc \in {"finalCheck", "exited", "crashed"}
  /\ (pc = "exited" /\ exitCode # 0) => exitCode = 1 /\ VersionDiagnostic
  /\ exitCode = 1 => NothingServed /\ pc \in {"exited", "crashed"}

C6_Claim ==
  (localDir /\ ~githubOnly) =>
    /\ fetches = 0
    /\ cacheOps = {}
    /\ docsDir \in {"none", "local"}
    /\ pc \in {"start", "located", "parsed", "built", "serving", "exited"}

\* sorted by matchCount, largest first
SortedByMatchCount(results) ==
  \A i, j \in 1..Len(results) : i < j => results[i].matchCount >= results[j].matchCount

\* C7: the results of every search are in non-increasing matchCount order and
\* are no more than the limit (none when the limit is zero or negative).
C7_Claim ==
  (gen \in {"index", "p003"} /\ response.kind = "results") =>
    /\ SortedByMatchCount(response.results)
    /\ Len(response.results) <=
         (IF EffectiveLimit(request) < 0 THEN 0 ELSE EffectiveLimit(request))


\* the positions where p occurs in c
Occurrences(p, c) ==
  {k \in 1..(Len(c) - Len(p) + 1) : SubSeq(c, k, k + Len(p) - 1) = p}

\* countAll(p, c): the most occurrences of p in c no two of which overlap
CountAll(p, c) ==
  LET disjoint == {S \in SUBSET Occurrences(p, c) :
                     \A i, j \in S : i < j => j - i >= Len(p)}
  IN CHOOSE n \in 0..Len(c) :
       /\ \E S \in disjoint : Cardinality(S) = n
       /\ \A S \in disjoint : Cardinality(S) <= n

\* the document a client gets at a uri a search returned: [ok, text]
ContentOf(uri) ==
  IF gen = "p003"
  THEN LET doc == handleResourceRequest(ReplaceFirst(uri, SCHEME, <<>>), RESOURCE_INDEX)
       IN [ok |-> doc.kind = "document", text |-> doc.text]
  ELSE IF gen = "p002"
  THEN LET doc == readDocument(ReplaceFirst(uri, SCHEME, <<>>), RESOURCE_INDEX)
       IN [ok |-> doc.kind = "document", text |-> doc.text]
  ELSE LET filePath == IF gen = "index"
                       THEN Join(DOCS_DIR, ReplaceFirst(uri, SCHEME, <<>>) \o MD)
                       ELSE Join(DOCS_DIR, ReplaceFirst(uri, BUN_DOC, <<>>))
       IN IF filePath \in DOMAIN files THEN [ok |-> TRUE, text |-> files[filePath]]
          ELSE [ok |-> FALSE, text |-> <<>>]

Candidates(prefix, pattern) ==
  {RESOURCE_INDEX[i].key : i \in
     {j \in 1..Len(RESOURCE_INDEX) :
        /\ ~RESOURCE_INDEX[j].val.isDirectory
        /\ RESOURCE_INDEX[j].val.filePath \in DOMAIN files
        /\ StartsWith(ReplaceFirst(RESOURCE_INDEX[j].key, SCHEME, <<>>), prefix)
        /\ CountAll(pattern, files[RESOURCE_INDEX[j].val.filePath]) > 0}}

\* C9: a search with a path prefix returns only documents whose uri, scheme
\* stripped, starts with the prefix, never a directory, and, unless the limit
\* truncates, every indexed document under the prefix that holds the pattern.
C9_Claim ==
  (Serving /\ gen \in {"index", "p003"} /\ response.kind = "results") =>
    /\ \A u \in Uris(response.results) :
         StartsWith(ReplaceFirst(u, SCHEME, <<>>), EffectivePath(request))
    /\ gen = "p003" =>
         /\ \A u \in Uris(response.results) :
              MapHas(RESOURCE_INDEX, u) /\ ~MapGet(RESOURCE_INDEX, u).isDirectory
         /\ (EffectiveLimit(request) >= 0
               /\ Len(response.results) < EffectiveLimit(request))
              => Uris(response.results)
                   = Candidates(EffectivePath(request), request.pattern.value)

C10_Step ==
  /\ (request' # request /\ BadPattern(request')) =>
       /\ response'.kind = "thrown"
       /\ response'.results = <<>>
       /\ RESOURCE_INDEX' = RESOURCE_INDEX
       /\ PAGE_MAP' = PAGE_MAP
       /\ files' = files
  /\ (/\ gen \in {"p001", "p003"}
      /\ BadPattern(request) /\ response.kind = "thrown"
      /\ request' # NoRequest /\ ~BadPattern(request')) =>
       /\ response'.kind # "thrown"
       /\ request'.op = "search" => response'.kind = "results"
       /\ request'.op = "read" =>
            response' = handleResourceRequest(request'.uri, RESOURCE_INDEX)

\* C10: a search whose pattern does not compile, or that has no pattern,
\* throws and returns no results; it leaves the index, the page map and the
\* files as they were, and the request that follows it is answered.
C10_ErrorPropagates == [][C10_Step]_vars

\* the grep tool of part_003 threw on a pattern that does not compile
C10_Witness ==
  /\ Serving
  /\ gen = "p003"
  /\ request.op = "search"
  /\ request.pattern = Given(InvalidPattern)
  /\ response.kind = "thrown"


\* the replies of a read that resolved to the root, a directory or a document
ResolvedKinds == {"root", "directory", "document"}

\* C11: a read whose path resolves to no indexed document or directory is
\* answered with a text/plain not-found or error payload and is never thrown,
\* and the server is still serving.
C11_Claim ==
  (/\ gen \in {"p003", "p002"}
   /\ request.op = "read"
   /\ response.kind \notin ResolvedKinds)
  => /\ response.kind # "thrown"
     /\ response.mimeType = "text/plain"
     /\ Serving

\* the slug that normalizeSlug leaves of its input
slugOf(input) == ReplaceFirst(normalizeSlug(input).key, SCHEME, <<>>)

\* C12: normalizing a path that normalization has produced changes nothing,
\* for normalizePath on every search path and for normalizeSlug on every
\* slug it accepts.
C12_Claim ==
  /\ (gen = "p001" /\ request.op = "search" /\ request.path.given) =>
       normalizePath(normalizePath(request.path.value))
         = normalizePath(request.path.value)
  /\ (gen = "p002" /\ request.op = "read" /\ normalizeSlug(request.uri).ok) =>
       /\ normalizeSlug(slugOf(request.uri)).ok
       /\ slugOf(slugOf(request.uri)) = slugOf(request.uri)

\* the first separator of a slug written twice
doubleSeparator(slug) == ReplaceFirst(slug, <<"/">>, <<"/", "/">>)

\* a slug with a leading separator, a trailing separator, a repeated internal
\* separator, or the document extension added
Variants(slug) ==
  {<<"/">> \o slug, slug \o <<"/">>, doubleSeparator(slug), slug \o MD}

\* what reading a path returns
ReadOf(path) ==
  IF gen = "p003" THEN handleResourceRequest(path, RESOURCE_INDEX)
  ELSE readDocument(path, RESOURCE_INDEX)

\* C13: reading an indexed slug with separators added in front, at the end
\* or inside, or with a trailing .md, returns what reading the slug returns.
C13_Claim ==
  (gen \in {"p003", "p002"} /\ request.op = "read") =>
    \A i \in 1..Len(RESOURCE_INDEX) :
      LET slug == ReplaceFirst(RESOURCE_INDEX[i].key, SCHEME, <<>>) IN
      request.uri \in Variants(slug) => response = ReadOf(slug)


\* the segments of a slug
Segments(slug) == Split(slug, "/")

\* the keys of RESOURCE_INDEX exactly one segment below the slug d
DirectChildren(d) ==
  {RESOURCE_INDEX[i].key : i \in
     {j \in 1..Len(RESOURCE_INDEX) :
        LET k == Segments(ReplaceFirst(RESOURCE_INDEX[j].key, SCHEME, <<>>))
        IN Len(k) = Len(Segments(d)) + 1 /\ SubSeq(k, 1, Len(Segments(d))) = Segments(d)}}

\* C14: reading an index key that is a directory returns a listing of
\* exactly the indexed entries one segment below it, each once: no entry
\* nested deeper, no sibling and not the directory itself.
C14_Listing ==
  (/\ gen = "p003"
   /\ request.op = "read"
   /\ MapHas(RESOURCE_INDEX, SCHEME \o request.uri)
   /\ MapGet(RESOURCE_INDEX, SCHEME \o request.uri).isDirectory)
  => /\ response.kind = "directory"
     /\ Uris(response.entries) = DirectChildren(request.uri)
     /\ Len(response.entries) = Cardinality(DirectChildren(request.uri))

\* the guides directory was listed while the index held an entry two segments
\* below it
C14_Witness ==
  /\ gen = "p003"
  /\ request.op = "read"
  /\ request.uri = GUIDES
  /\ response.kind = "directory"
  /\ response.entries # <<>>
  /\ MapHas(RESOURCE_INDEX, SCHEME \o S_gx \o <<"/", "y">>)

\* the reply is a root listing
RootListing ==
  gen \in {"index", "p003"} /\ (request.op = "list" \/ response.kind = "root")

\* a slug inside the guides subtree
InGuides(slug) == StartsWith(slug, GUIDES \o <<"/">>)

\* C15: the root listing holds every manifest page that has a document, the
\* guides placeholder once, every markdown file directly in the ecosystem
\* directory, and no entry inside the guides subtree.
C15_Claim ==
  RootListing =>
    /\ \A i \in 1..Len(PAGE_MAP) :
         (NormalPage(PAGE_MAP[i].val) /\ navFilePath(PAGE_MAP[i].key) # <<>>)
         => SCHEME \o PAGE_MAP[i].key \in Uris(response.entries)
    /\ existsSync(Join(DOCS_DIR, GUIDES)) =>
         Cardinality({i \in 1..Len(response.entries) :
                        response.entries[i].uri = SCHEME \o GUIDES}) = 1
    /\ \A f \in DOMAIN files :
         Dirname(f) = Join(DOCS_DIR, ECOSYSTEM) =>
           SCHEME \o relativeSlug(f) \in Uris(response.entries)
    /\ \A u \in Uris(response.entries) : ~InGuides(ReplaceFirst(u, SCHEME, <<>>))

C16_Step ==
  gen \in {"p003", "p002"} =>
    /\ (RESOURCE_INDEX' # RESOURCE_INDEX \/ (pc' = "built" /\ pc # "built")) =>
         /\ pc = "parsed" /\ pc' = "built"
         /\ RESOURCE_INDEX = <<>>
         /\ RESOURCE_INDEX' = builtIndex(PAGE_MAP)
         /\ ~connected /\ ~connected'
    /\ connected' => RESOURCE_INDEX' = builtIndex(PAGE_MAP')
    /\ request' # request => connected /\ RESOURCE_INDEX' = RESOURCE_INDEX

\* C16: the index changes in one step only, the build, which comes before the
\* transport is connected; a connected server holds the built index, and no
\* request, answered or refused, changes it.
C16_BuiltOnce == [][C16_Step]_vars

\* a read was refused while the index held entries
C16_Witness ==
  /\ gen = "p003"
  /\ Serving
  /\ request.op = "read"
  /\ response.kind = "notfound"
  /\ RESOURCE_INDEX # <<>>

\* C17: once a download has run, whether it returned or threw, the cache
\* directory is a whole docs directory or absent, never a mixture.
C17_Claim == fetches > 0 => cache \in {"absent", "noNav", "withNav"}

\* C18: when loading or walking nav.ts raises, the process does not go on:
\* no page map is kept, no index is built and the transport is not connected.
C18_Claim ==
  (gen \in {"index", "p003", "p002"} /\ ~navSource.ok) =>
    /\ pc \notin {"parsed", "built", "serving"}
    /\ PAGE_MAP = <<>>
    /\ RESOURCE_INDEX = <<>>
    /\ ~connected

\* the top-level script stands at the terminal check
AtTerminalCheck == pc = (IF gen = "index" THEN "parsed" ELSE "built")

C19_Step ==
  gen \in {"index", "p003", "p002"} =>
    /\ (AtTerminalCheck /\ pc' # pc) =>
         IF isTTY
         THEN /\ pc' = "exited"
              /\ exitCode' = 0
              /\ stdout' = Append(stdout, <<"Bun documents cached in", "cache">>)
              /\ ~connected'
         ELSE /\ pc' = "serving"
              /\ connected'
              /\ exitCode' = -1
              /\ stdout' = stdout
    /\ isTTY => ~connected'
    /\ exitCode' = 0 => isTTY

\* C19: at the terminal check a process whose standard output is a terminal
\* prints where the documents are cached and exits with code 0, never
\* connecting the transport; any other process connects it and does not exit.
C19_TerminalExit == [][C19_Step]_vars

\* a process on a terminal printed the location and exited with code 0
C19_Witness ==
  /\ gen = "p003"
  /\ isTTY
  /\ pc = "exited"
  /\ exitCode = 0
  /\ ~connected
  /\ stdout # <<>>

\* the version candidates of the running process
VersionCandidates == listVersionCandidates(bunVersion)

\* C20: downloadDocsWithFallback downloads the candidates in list order, none
\* after one that succeeded, and when all have failed it throws the error of
\* the last candidate and does not return.
C20_Fallback ==
  gen = "p002" =>
    /\ Len(attempts) <= Len(VersionCandidates)
    /\ \A i \in 1..Len(attempts) :
         /\ attempts[i].version = VersionCandidates[i]
         /\ i < Len(attempts) => ~attempts[i].ok
    /\ (attempts # <<>> /\ attempts[Len(attempts)].ok) =>
         pc \notin {"download1", "download2"}
    /\ (attempts # <<>> /\ ~attempts[Len(attempts)].ok) =>
         /\ lastError = downloadError(attempts[Len(attempts)].version)
         /\ pc \in {"download1", "download2", "crashed"}
         /\ pc = "crashed" =>
              /\ Len(attempts) = Len(VersionCandidates)
              /\ stderr[Len(stderr)]
                   = <<"Failed to download docs:", VersionCandidates[Len(VersionCandidates)]>>

\* both candidates failed and the process ended with the error of the second
C20_Witness ==
  /\ gen = "p002"
  /\ pc = "crashed"
  /\ Len(attempts) = 2
  /\ ~attempts[1].ok
  /\ ~attempts[2].ok


\* a version up to its build suffix (the + and what follows)
ExactVersion(version) ==
  LET i == IndexOf(version, <<"+">>)
  IN IF i = 0 THEN version ELSE SubSeq(version, 1, i - 1)

\* a version up to its pre-release suffix (the - and what follows)
ReleaseOnly(version) ==
  LET i == IndexOf(ExactVersion(version), <<"-">>)
  IN IF i = 0 THEN ExactVersion(version) ELSE SubSeq(version, 1, i - 1)

\* C21: the version candidates are one or two different versions: first the
\* exact version (the version string up to its build suffix), then, only for
\* a version with a pre-release suffix, the release alone, which is shorter.
C21_Candidates ==
  (gen = "p002" /\ pc # "start") =>
    /\ Len(VersionCandidates) \in {1, 2}
    /\ VersionCandidates[1] = ExactVersion(bunVersion)
    /\ Len(VersionCandidates) = 2 =>
         /\ Includes(ExactVersion(bunVersion), <<"-">>)
         /\ VersionCandidates[2] = ReleaseOnly(bunVersion)
         /\ VersionCandidates[2] # VersionCandidates[1]
         /\ Len(VersionCandidates[2]) < Len(VersionCandidates[1])

\* the release of a pre-release of some build was downloaded as the second
\* candidate
C21_Witness ==
  /\ gen = "p002"
  /\ Includes(bunVersion, <<"+">>)
  /\ Len(attempts) = 2
  /\ attempts[2].version = BunVersion


\* C22: within one startup no version is downloaded again after a download of
\* it has failed, be it in the first round or in the round that follows a
\* missing nav.ts.
C22_Claim ==
  \A i, j \in 1..Len(fetchLog) :
    (i < j /\ ~fetchLog[i].ok) => fetchLog[j].version # fetchLog[i].version


\* the process started on a cache directory without nav.ts: the first round
\* of downloads it started is the one that follows the removal
StartedWithoutManifest ==
  /\ gen \in {"index", "p003", "p002"}
  /\ roundLog # <<>>
  /\ roundLog[1] = "refetch"

\* C23: started on a cache directory that lacks nav.ts, the locator runs the
\* removal of the directory and starts one round of downloads, never a second
\* one; it returns the directory only with nav.ts in it, and when nav.ts is
\* still missing after the round the process ends with a code other than 0.
C23_RefetchOnce ==
  StartedWithoutManifest =>
    /\ roundLog = <<"refetch">>
    /\ "remove" \in cacheOps
    /\ \A i \in 1..Len(fetchLog) : fetchLog[i].round = 1
    /\ docsDir = "cache" => cache = "withNav"
    /\ (pc # "download2" /\ cache # "withNav") =>
         /\ pc \in {"finalCheck", "exited", "crashed"}
         /\ pc # "finalCheck" => exitCode = 1

\* the one round after the removal left no nav.ts and the process ended with
\* code 1
C23_Witness ==
  /\ StartedWithoutManifest
  /\ Len(fetchLog) = 1
  /\ fetchLog[1].ok
  /\ cache # "withNav"
  /\ pc = "exited"
  /\ exitCode = 1


\* the process goes on with its startup, or has ended with code 0
StartupGoesOn ==
  \/ pc \in {"checkNav", "finalCheck", "located", "parsed", "built", "serving"}
  \/ pc = "exited" /\ exitCode = 0
  \/ connected
  \/ RESOURCE_INDEX # <<>>

LastCandidateFailed ==
  \E i \in 1..Len(fetchLog) :
    /\ ~fetchLog[i].ok
    /\ gen = "p002" => fetchLog[i].version = VersionCandidates[Len(VersionCandidates)]

HoldsTemp(q) ==
  /\ procs[q].at \in {"sparse", "remove", "move", "finally"}
  /\ temps[tempPath(q)].owner = q

\* C25: of the processes that download at the same time, none removes,
\* overwrites or moves from the temporary directory of another, and when all
\* are done the cache target is the complete docs directory or absent.
C25_Claim ==
  [][/\ \A q \in Procs :
          (HoldsTemp(q) /\ procs'[q] = procs[q]) =>
            temps'[tempPath(q)] = temps[tempPath(q)]
     /\ (\A q \in Procs : procs'[q].at = "done") =>
          targetDir' \in {"complete", "absent"}]_vars


\* the characters of a string
Chars(str) == {str[i] : i \in 1..Len(str)}

\* C26: whatever flags string the caller of grep_bun_docs of part_002 gives,
\* none or the empty one included, the flags the pattern is compiled with
\* contain g, contain only characters of g i m u y s, contain none twice and
\* contain every one of these that the caller gave; the search is answered
\* with results, never with an error.
C26_Flags ==
  (gen = "p002" /\ request.op = "search" /\ ~BadPattern(request)) =>
    LET compiled == finalFlags(request.flags)
        supplied == IF request.flags.given THEN Chars(request.flags.value) ELSE {}
    IN /\ "g" \in Chars(compiled)
       /\ Chars(compiled) \subseteq {"g", "i", "m", "u", "y", "s"}
       /\ Cardinality(Chars(compiled)) = Len(compiled)
       /\ (supplied \cap {"g", "i", "m", "u", "y", "s"}) \subseteq Chars(compiled)
       /\ response.kind = "results"

\* a search with the flags ii found N as well as n
C26_Witness ==
  /\ gen = "p002"
  /\ request.op = "search"
  /\ request.pattern = Given(<<"n">>)
  /\ request.flags = Given(<<"i", "i">>)
  /\ response.kind = "results"
  /\ \E i \in 1..Len(response.results) : response.results[i].matchCount = 2


\* where the scan meets a uri: its place in RESOURCE_INDEX
IndexPos(uri) == CHOOSE i \in 1..Len(RESOURCE_INDEX) : RESOURCE_INDEX[i].key = uri

\* how often the document at an indexed uri holds the pattern
CountAt(uri, pattern) == CountAll(pattern, files[MapGet(RESOURCE_INDEX, uri).filePath])

\* C27: results of part_003 with equal matchCount are in the order in which
\* the scan met them (the insertion order of the index), and a limit keeps
\* the first limit entries of that order: what is left out comes after every
\* entry that is kept.
C27_StableOrder ==
  (Serving /\ gen = "p003" /\ response.kind = "results") =>
    LET results == response.results
        limit == EffectiveLimit(request)
        all == Candidates(EffectivePath(request), request.pattern.value)
    IN /\ \A i \in 1..Len(results) : MapHas(RESOURCE_INDEX, results[i].uri)
       /\ \A i, j \in 1..Len(results) :
            (i < j /\ results[i].matchCount = results[j].matchCount) =>
              IndexPos(results[i].uri) < IndexPos(results[j].uri)
       /\ limit >= 0 =>
            /\ Len(results) = (IF limit < Cardinality(all) THEN limit
                               ELSE Cardinality(all))
            /\ \A c \in all \ Uris(results) : \A i \in 1..Len(results) :
                 \/ results[i].matchCount > CountAt(c, request.pattern.value)
                 \/ /\ results[i].matchCount = CountAt(c, request.pattern.value)
                    /\ IndexPos(results[i].uri) < IndexPos(c)

\* a limit of 1 kept the first of two documents that hold the pattern equally
\* often
C27_Witness ==
  /\ Serving
  /\ gen = "p003"
  /\ response.kind = "results"
  /\ EffectiveLimit(request) = 1
  /\ Len(response.results) = 1
  /\ \E c \in Candidates(EffectivePath(request), request.pattern.value) :
       /\ c # response.results[1].uri
       /\ CountAt(c, request.pattern.value) = response.results[1].matchCount


\* the backing file of a manifest page: slug.md when it exists, else
\* slug/index.md when that exists, else none
BackingFile(slug) ==
  IF Join(DOCS_DIR, slug \o MD) \in DOMAIN files THEN Join(DOCS_DIR, slug \o MD)
  ELSE IF Join(DOCS_DIR, slug \o <<"/">> \o INDEX \o MD) \in DOMAIN files
       THEN Join(DOCS_DIR, slug \o <<"/">> \o INDEX \o MD)
       ELSE <<>>

\* what C28 says of the manifest page at place i of PAGE_MAP
C28_Page(i) ==
  LET slug == PAGE_MAP[i].key
      backing == BackingFile(slug)
      pattern == request.pattern.value
  IN NormalPage(PAGE_MAP[i].val) =>
       /\ (request.op = "read" /\ request.uri = slug /\ backing # <<>>) =>
            /\ response.kind = "document"
            /\ response.text = files[backing]
       /\ (/\ request.op = "search" /\ response.kind = "results"
           /\ backing # <<>>
           /\ StartsWith(slug, EffectivePath(request))
           /\ CountAll(pattern, files[backing]) > 0
           /\ EffectiveLimit(request) > Len(response.results)) =>
            \E k \in 1..Len(response.results) :
              /\ response.results[k].uri = SCHEME \o slug
              /\ response.results[k].matchCount = CountAll(pattern, files[backing])
       /\ (gen = "p003" /\ backing = <<>> /\ MapHas(RESOURCE_INDEX, SCHEME \o slug)) =>
            MapGet(RESOURCE_INDEX, SCHEME \o slug).isDirectory

\* C28: the backing file of an enabled manifest page without href is slug.md
\* when it exists, else slug/index.md when that exists; reading the page
\* serves that file and a search counts the matches in that file; a page with
\* neither file is not indexed as a document, and the pages after it are
\* served all the same.
C28_Claim ==
  (Serving /\ gen \in {"index", "p003"}) =>
    \A i \in 1..Len(PAGE_MAP) : C28_Page(i)


\* the markdown files anywhere under the ecosystem directory
EcosystemFiles ==
  {f \in DOMAIN files :
     StartsWith(f, Join(DOCS_DIR, ECOSYSTEM) \o <<"/">>) /\ EndsWith(f, MD)}

\* the uri of a file under DOCS_DIR
UriOf(f) ==
  SCHEME \o ReplaceFirst(ReplaceFirst(f, DOCS_DIR \o <<"/">>, <<>>), MD, <<>>)

\* C29: the ecosystem crawl does not descend: a markdown file under the
\* ecosystem directory is registered (indexed by part_003, listed by index.ts)
\* exactly when it lies directly inside that directory.
C29_Claim ==
  /\ (gen = "p003" /\ pc \in {"built", "serving"}) =>
       \A f \in EcosystemFiles :
         MapHas(RESOURCE_INDEX, UriOf(f)) <=> Dirname(f) = Join(DOCS_DIR, ECOSYSTEM)
  /\ (gen = "index" /\ Serving /\ response.kind = "list") =>
       \A f \in EcosystemFiles :
         UriOf(f) \in Uris(response.entries) <=> Dirname(f) = Join(DOCS_DIR, ECOSYSTEM)


\* what the server answers when a uri it handed out is read
ReadBack(uri) ==
  IF gen = "p003"
  THEN handleResourceRequest(ReplaceFirst(uri, SCHEME, <<>>), RESOURCE_INDEX)
  ELSE handleResourceRequest_index(ReplaceFirst(uri, SCHEME, <<>>), PAGE_MAP)

\* the first n segments of a slug, joined again
Ancestor(slug, n) ==
  LET RECURSIVE join(_)
      join(k) == IF k = 1 THEN Segments(slug)[1]
                 ELSE join(k - 1) \o <<"/">> \o Segments(slug)[k]
  IN join(n)

\* the slugs of the markdown files under the guides directory
GuideSlugs ==
  {ReplaceFirst(ReplaceFirst(f, DOCS_DIR \o <<"/">>, <<>>), MD, <<>>) :
     f \in {g \in DOMAIN files :
              StartsWith(g, Join(DOCS_DIR, GUIDES) \o <<"/">>) /\ EndsWith(g, MD)}}

\* C30: every uri the server hands out, in list(), in the root listing, in a
\* directory listing or in search results, reads back as a directory listing
\* or a document; and every document under guides is reached from the root
\* listing through the listings of its parent directories.
C30_Claim ==
  (Serving /\ gen \in {"index", "p003"}) =>
    /\ \A u \in Uris(response.entries) \cup Uris(response.results) :
         ReadBack(u).kind \in {"directory", "document"}
    /\ \A slug \in GuideSlugs :
         /\ SCHEME \o GUIDES \in Uris(ReadBack(SCHEME).entries)
         /\ \A n \in 1..(Len(Segments(slug)) - 1) :
              /\ ReadBack(SCHEME \o Ancestor(slug, n)).kind = "directory"
              /\ SCHEME \o Ancestor(slug, n + 1)
                   \in Uris(ReadBack(SCHEME \o Ancestor(slug, n)).entries)
====
